---- MODULE Spec2Model ----
(***************************************************************************)
(* Model of drive-to-lightroomcc: the two OAuth token managers             *)
(* (auth/adobe_auth.py, auth/google_auth.py), the main flow (main.py) and  *)
(* the batched transfer pipeline (sync/logic.py).                          *)
(*                                                                         *)
(* Time is counted in minutes.  An ISO-8601 timestamp string is modelled   *)
(* as the pair <<hours, minutes>>; the empty tuple is a missing value.     *)
(***************************************************************************)
EXTENDS Integers, Sequences, FiniteSets, TLC

VARIABLES
    now,                \* wall clock, datetime.now(), in minutes
    client_configured,  \* ADOBE_CLIENT_ID and ADOBE_CLIENT_SECRET are set
    adobe,              \* the AdobeLightroomAuth instance
    adobeFile,          \* tokens/adobe_token.json
    google,             \* the GoogleDriveAuth instance
    googleFile,         \* tokens/google_token.pickle
    call,               \* what the operation of the last step did and returned
    lastRefreshAt,      \* time of the last Adobe refresh request, NoTime if none
    mainPc,             \* position of main()
    mainSt,             \* locals of main() and the requests it has issued
    drive_files,        \* argument of sync_folder_to_album
    syncPc,             \* position of sync_folder_to_album
    sync,               \* loop variables and request history of the pipeline
    selector,           \* the LightroomAlbumSelector instance
    backend,            \* the Lightroom catalog and albums on the server
    listed,             \* the pages list_albums returned, by (limit, offset)
    selPc,              \* position of select_album
    sel,                \* locals of select_album
    walk,               \* the frames of get_folder_path and what it returned
    writer              \* a second process inside _save_tokens

authVars == <<now, client_configured, adobe, adobeFile, google, googleFile,
              lastRefreshAt>>
mainVars == <<mainPc, mainSt>>
syncVars == <<drive_files, syncPc, sync>>
menuVars == <<selector, backend, listed, selPc, sel, walk>>
storeVars == <<writer>>
vars == <<now, client_configured, adobe, adobeFile, google, googleFile, call,
          lastRefreshAt, mainPc, mainSt, drive_files, syncPc, sync,
          selector, backend, listed, selPc, sel, walk, writer>>

----------------------------------------------------------------------------
(* Bounds *)

MaxTicks == 2           \* how many times the clock advances
MaxFiles == 12          \* longest source listing
MaxFreeFiles == 2       \* listings up to this length take every combination
MainMaxFiles == 1       \* longest listing returned inside the main flow
MaxPieces == 3          \* longest response body, in pieces
MaxAlbums == 51         \* most albums a catalog holds
MaxFolders == 3         \* folders in the Drive
MaxDepth == 5           \* get_folder_path frames the interpreter stack holds

----------------------------------------------------------------------------
(* Values *)

None == "None"          \* Python None for a token
NoTime == -1            \* Python None for a datetime
NoIso == <<>>           \* missing or empty expires_at string
BadIso == <<0, 60>>     \* a string datetime.fromisoformat rejects

SKEW == 5               \* timedelta(minutes=5)
DefaultExpiresIn == 60  \* token_response.get('expires_in', 3600): 3600 s
GoogleLifetime == 60    \* lifetime of a fresh Google access token

\* A format that leaves the hours out.
IsoFormat_NoHours(t) == <<0, t % 60>>

\* datetime.isoformat
IsoFormat(t) == <<t \div 60, t % 60>>

\* what datetime.fromisoformat accepts
IsIso(s) == Len(s) = 2 /\ s[1] >= 0 /\ s[2] \in 0..59

\* datetime.fromisoformat
FromIsoFormat(s) == s[1] * 60 + s[2]

----------------------------------------------------------------------------
(* AdobeLightroomAuth *)

AdobeNew == [access_token |-> None, refresh_token |-> None,
             token_expires |-> NoTime, account_info |-> FALSE]

NoFile == [exists |-> FALSE, corrupt |-> FALSE, access_token |-> None,
           refresh_token |-> None, expires_at |-> NoIso]

CorruptFile == [NoFile EXCEPT !.exists = TRUE, !.corrupt = TRUE]

\* _load_tokens: the instance after the call and the value returned
LoadTokens(self, file) ==
    IF ~file.exists THEN [self |-> self, ret |-> FALSE]
    ELSE IF file.corrupt THEN [self |-> self, ret |-> FALSE]
    ELSE LET s1 == [self EXCEPT !.access_token = file.access_token,
                                !.refresh_token = file.refresh_token]
         IN  IF file.expires_at # NoIso
             THEN IF IsIso(file.expires_at)
                  THEN [self |-> [s1 EXCEPT !.token_expires =
                                      FromIsoFormat(file.expires_at)],
                        ret |-> s1.access_token # None]
                  ELSE [self |-> s1, ret |-> FALSE]
             ELSE [self |-> s1, ret |-> s1.access_token # None]

\* A validity check that asks for three margins instead of one.
IsTokenValid_WideMargin(self, t) ==
    IF self.access_token = None \/ self.token_expires = NoTime THEN FALSE
    ELSE t < self.token_expires - 3 * SKEW

\* _is_token_valid
IsTokenValid(self, t) ==
    IF self.access_token = None \/ self.token_expires = NoTime THEN FALSE
    ELSE t < self.token_expires - SKEW

\* A token response of the provider: the JSON body of a 200 answer.  A key
\* the body lacks has has_* = FALSE (and a filler value).
TokenBodies ==
    { [has_access |-> FALSE, access_token |-> None, has_refresh |-> FALSE,
       refresh_token |-> None, has_expires |-> FALSE, expires_in |-> 0] }
    \cup
    { [has_access |-> TRUE, access_token |-> "a2", has_refresh |-> hr,
       refresh_token |-> IF hr THEN "r2" ELSE None,
       has_expires |-> e # 0, expires_in |-> e] :
         hr \in BOOLEAN, e \in {0, SKEW} }

\* A _save_tokens that stores the refresh token of the response only.
SaveTokens_DropRefresh(self, file, resp, t, diskOk) ==
    LET expires_in == IF resp.has_expires THEN resp.expires_in
                      ELSE DefaultExpiresIn
        expires_at == t + expires_in
        refresh == resp.refresh_token
    IN  IF ~resp.has_access THEN [self |-> self, file |-> file, ret |-> FALSE]
        ELSE IF ~diskOk THEN [self |-> self, file |-> file, ret |-> FALSE]
        ELSE [self |-> [self EXCEPT !.access_token = resp.access_token,
                                    !.refresh_token = refresh,
                                    !.token_expires = expires_at],
              file |-> [exists |-> TRUE, corrupt |-> FALSE,
                        access_token |-> resp.access_token,
                        refresh_token |-> refresh,
                        expires_at |-> IsoFormat(expires_at)],
              ret |-> TRUE]

\* _save_tokens: writes the token file, then updates the instance
SaveTokens(self, file, resp, t, diskOk) ==
    LET expires_in == IF resp.has_expires THEN resp.expires_in
                      ELSE DefaultExpiresIn
        expires_at == t + expires_in
        refresh == IF resp.has_refresh THEN resp.refresh_token
                   ELSE self.refresh_token
    IN  IF ~resp.has_access THEN [self |-> self, file |-> file, ret |-> FALSE]
        ELSE IF ~diskOk THEN [self |-> self, file |-> file, ret |-> FALSE]
        ELSE [self |-> [self EXCEPT !.access_token = resp.access_token,
                                    !.refresh_token = refresh,
                                    !.token_expires = expires_at],
              file |-> [exists |-> TRUE, corrupt |-> FALSE,
                        access_token |-> resp.access_token,
                        refresh_token |-> refresh,
                        expires_at |-> IsoFormat(expires_at)],
              ret |-> TRUE]

\* The body of a token answer that carries no access_token.
EmptyBody ==
    [has_access |-> FALSE, access_token |-> None, has_refresh |-> FALSE,
     refresh_token |-> None, has_expires |-> FALSE, expires_in |-> 0]

\* What the outside world answers during one authenticate() call.
\*   refresh_ok, refresh_body   : the answer to the refresh POST
\*   code                       : auth_code.txt when the user presses Enter
\*   exchange_ok, exchange_body : the answer to the code-exchange POST
\*   disk_ok                    : open(token_file, 'w') succeeds
\* A body that is never read is EmptyBody.
AdobeEnvs ==
    { e \in [refresh_ok : BOOLEAN, refresh_body : TokenBodies,
             code : {"missing", "short", "ok"},
             exchange_ok : BOOLEAN, exchange_body : TokenBodies,
             disk_ok : BOOLEAN] :
        /\ ~e.refresh_ok => e.refresh_body = EmptyBody
        /\ ~e.exchange_ok => e.exchange_body = EmptyBody
        /\ e.code # "ok" => ~e.exchange_ok }

\* _refresh_access_token
RefreshAccessToken(self, file, t, env) ==
    IF self.refresh_token = None
    THEN [self |-> self, file |-> file, ret |-> FALSE, refreshes |-> 0]
    ELSE IF ~env.refresh_ok
    THEN [self |-> self, file |-> file, ret |-> FALSE, refreshes |-> 1]
    ELSE LET s == SaveTokens(self, file, env.refresh_body, t, env.disk_ok)
         IN  [self |-> s.self, file |-> s.file, ret |-> s.ret, refreshes |-> 1]

\* _exchange_code_for_tokens
ExchangeCodeForTokens(self, file, t, env) ==
    IF ~env.exchange_ok THEN [self |-> self, file |-> file, ret |-> FALSE]
    ELSE SaveTokens(self, file, env.exchange_body, t, env.disk_ok)

\* _do_oauth_flow
AdobeDoOAuthFlow(self, file, t, env) ==
    IF env.code = "missing" THEN [self |-> self, file |-> file, ret |-> FALSE]
    ELSE IF env.code = "short" THEN [self |-> self, file |-> file, ret |-> FALSE]
    ELSE ExchangeCodeForTokens(self, file, t, env)

\* authenticate: the instance and file after the call, the value returned,
\* and how many refresh requests and interactive flows the call made
AdobeAuthenticate(self, file, t, configured, env) ==
    LET l == LoadTokens(self, file)
        r == RefreshAccessToken(l.self, file, t, env)
        tryRefresh == l.ret /\ ~IsTokenValid(l.self, t)
                            /\ l.self.refresh_token # None
        s0 == IF tryRefresh THEN r.self ELSE l.self
        f0 == IF tryRefresh THEN r.file ELSE file
        n0 == IF tryRefresh THEN r.refreshes ELSE 0
        o == AdobeDoOAuthFlow(s0, f0, t, env)
    IN  IF ~configured
        THEN [self |-> self, file |-> file, ret |-> FALSE,
              refreshes |-> 0, interactive |-> 0, refreshed |-> FALSE]
        ELSE IF l.ret /\ IsTokenValid(l.self, t)
        THEN [self |-> l.self, file |-> file, ret |-> TRUE,
              refreshes |-> 0, interactive |-> 0, refreshed |-> FALSE]
        ELSE IF tryRefresh /\ r.ret
        THEN [self |-> r.self, file |-> r.file, ret |-> TRUE,
              refreshes |-> r.refreshes, interactive |-> 0,
              refreshed |-> TRUE]
        ELSE [self |-> o.self, file |-> o.file, ret |-> o.ret,
              refreshes |-> n0, interactive |-> 1, refreshed |-> FALSE]

\* get_headers: the Authorization token of the headers, None if no headers
GetHeaders(self) ==
    IF self.access_token = None THEN None ELSE self.access_token

----------------------------------------------------------------------------
(* GoogleDriveAuth *)

NoCreds == [present |-> FALSE, token |-> None, refresh_token |-> None,
            expiry |-> NoTime]

GoogleNew == [credentials |-> NoCreds, service |-> FALSE]

NoPickle == [exists |-> FALSE, corrupt |-> FALSE, credentials |-> NoCreds]

CorruptPickle == [NoPickle EXCEPT !.exists = TRUE, !.corrupt = TRUE]

\* Credentials.expired of google-auth: no expiry means never expired
CredExpired(c, t) == IF c.expiry = NoTime THEN FALSE ELSE t >= c.expiry

\* Credentials.valid of google-auth
CredValid(c, t) == c.token # None /\ ~CredExpired(c, t)

\* What the outside world answers during one GoogleDriveAuth.authenticate().
\*   refresh_ok : credentials.refresh(Request()) does not raise
\*   flow       : "no_client_file" (google_credentials.json is missing),
\*                "fail" (the local-server flow raises), "ok"
\*   disk_ok    : open(token_file, 'wb') and pickle.dump succeed
\*   build_ok   : build('drive', 'v3', ...) does not raise
GoogleEnvs ==
    [refresh_ok : BOOLEAN, flow : {"no_client_file", "fail", "ok"},
     disk_ok : BOOLEAN, build_ok : BOOLEAN]

\* _do_oauth_flow
GoogleDoOAuthFlow(self, file, t, env) ==
    LET c == [present |-> TRUE, token |-> "g1", refresh_token |-> "gr1",
              expiry |-> t + GoogleLifetime]
    IN  IF env.flow = "no_client_file"
        THEN [self |-> self, file |-> file, ret |-> "False"]
        ELSE IF env.flow = "fail"
        THEN [self |-> self, file |-> file, ret |-> "False"]
        ELSE IF ~env.disk_ok
        THEN [self |-> [self EXCEPT !.credentials = c], file |-> file,
              ret |-> "False"]
        ELSE [self |-> [self EXCEPT !.credentials = c],
              file |-> [exists |-> TRUE, corrupt |-> FALSE, credentials |-> c],
              ret |-> "True"]

\* authenticate: the instance and file after the call, the outcome ("True",
\* "False", or "Raised" when an exception leaves the method), and how many
\* refresh requests and interactive flows the call made
GoogleAuthenticate(self, file, t, env) ==
    LET s1 == IF file.exists /\ ~file.corrupt
              THEN [self EXCEPT !.credentials = file.credentials]
              ELSE self
        c1 == s1.credentials
        tryRefresh == c1.present /\ CredExpired(c1, t)
                                 /\ c1.refresh_token # None
        c2 == [c1 EXCEPT !.token = "g2", !.expiry = t + GoogleLifetime]
        s2 == IF tryRefresh THEN [s1 EXCEPT !.credentials = c2] ELSE s1
        o == GoogleDoOAuthFlow(s1, file, t, env)
        f2 == IF tryRefresh
              THEN [exists |-> TRUE, corrupt |-> FALSE, credentials |-> c2]
              ELSE file
    IN  IF file.exists /\ file.corrupt
        THEN [self |-> self, file |-> file, ret |-> "Raised",
              refreshes |-> 0, interactive |-> 0, refreshed |-> FALSE]
        ELSE IF ~c1.present \/ ~CredValid(c1, t)
        THEN IF tryRefresh
             THEN IF ~env.refresh_ok
                  THEN [self |-> o.self, file |-> o.file, ret |-> o.ret,
                        refreshes |-> 1, interactive |-> 1,
                        refreshed |-> FALSE]
                  ELSE IF ~env.disk_ok
                  THEN [self |-> s2, file |-> file, ret |-> "Raised",
                        refreshes |-> 1, interactive |-> 0,
                        refreshed |-> TRUE]
                  ELSE IF env.build_ok
                  THEN [self |-> [s2 EXCEPT !.service = TRUE], file |-> f2,
                        ret |-> "True", refreshes |-> 1, interactive |-> 0,
                        refreshed |-> TRUE]
                  ELSE [self |-> s2, file |-> f2, ret |-> "False",
                        refreshes |-> 1, interactive |-> 0,
                        refreshed |-> TRUE]
             ELSE [self |-> o.self, file |-> o.file, ret |-> o.ret,
                   refreshes |-> 0, interactive |-> 1, refreshed |-> FALSE]
        ELSE IF env.build_ok
        THEN [self |-> [s1 EXCEPT !.service = TRUE], file |-> file,
              ret |-> "True", refreshes |-> 0, interactive |-> 0,
              refreshed |-> FALSE]
        ELSE [self |-> s1, file |-> file, ret |-> "False",
              refreshes |-> 0, interactive |-> 0, refreshed |-> FALSE]

\* get_service: authenticates when no service has been built yet
GetService(self, file, t, env) ==
    IF ~self.service THEN GoogleAuthenticate(self, file, t, env)
    ELSE [self |-> self, file |-> file, ret |-> "True",
          refreshes |-> 0, interactive |-> 0, refreshed |-> FALSE]

----------------------------------------------------------------------------
(* The authenticated request client *)

NoResponse == 0         \* the request raised before any response arrived

\* The answers a request can get: an HTTP status, or no response at all.
Statuses == {NoResponse, 200, 201, 204, 412, 500}

JsonType == <<"application", "json">>

\* A merge in which the session's value wins over the caller's.
Update_SessionWins(h, c) ==
    [k \in DOMAIN h \cup DOMAIN c |-> IF k \in DOMAIN h THEN h[k] ELSE c[k]]

\* dict.update: the keys of h overridden by those of c
Update(h, c) ==
    [k \in DOMAIN h \cup DOMAIN c |-> IF k \in DOMAIN c THEN c[k] ELSE h[k]]

\* get_headers as a header dictionary (called only with a token present)
SessionHeaders(self) ==
    ("Authorization" :> self.access_token) @@ ("X-API-Key" :> "client_id")
        @@ ("Content-Type" :> JsonType)

\* Response.raise_for_status
RaisesForStatus(status) == status >= 400 /\ status < 600

\* make_authenticated_request sending a failed request a second time.
MakeAuthenticatedRequest_Retry(self, headers, status) ==
    IF self.access_token = None
    THEN [sent |-> FALSE, attempts |-> 0, headers |-> <<>>,
          status |-> NoResponse, raised |-> TRUE]
    ELSE [sent |-> TRUE,
          attempts |-> IF status = NoResponse \/ RaisesForStatus(status)
                       THEN 2 ELSE 1,
          headers |-> Update(SessionHeaders(self), headers),
          status |-> status,
          raised |-> status = NoResponse \/ RaisesForStatus(status)]

\* make_authenticated_request: whether a request went out and how many
\* times (the single requests.request call), the headers it carried, the
\* status of the answer and whether the call raised
MakeAuthenticatedRequest(self, headers, status) ==
    IF self.access_token = None
    THEN [sent |-> FALSE, attempts |-> 0, headers |-> <<>>,
          status |-> NoResponse, raised |-> TRUE]
    ELSE [sent |-> TRUE,
          attempts |-> 1,
          headers |-> Update(SessionHeaders(self), headers),
          status |-> status,
          raised |-> status = NoResponse \/ RaisesForStatus(status)]

----------------------------------------------------------------------------
(* The token managers as objects: any sequence of their operations *)

NoLink == [catalog |-> None, href |-> <<>>]     \* next_link=None
NoLimit == -1                                   \* limit=None

\* What list_albums returns when it has nothing: [], None
EmptyListing == [albums |-> <<>>, next |-> NoLink]

NoRequest == [sent |-> FALSE, url |-> NoLink, params |-> <<>>]

\* LightroomAlbumSelector.__init__ before get_headers() is cached
SelectorNew == [catalog_id |-> None, headers |-> None]

NoBackend == [catalog_id |-> None, albums |-> 0]

SelIdle == [current_page_albums |-> <<>>, next_api_url |-> NoLink,
            previous_page_states |-> <<>>, current_api_offset |-> 0,
            ret |-> [values |-> 0, album_id |-> 0, catalog_id |-> None]]

\* The navigation state of select_album: the offset, the next URL and the
\* stack of the pages left behind.
Nav(st) == [offset |-> st.current_api_offset, next_url |-> st.next_api_url,
            stack |-> st.previous_page_states]

NoNav == Nav(SelIdle)

\* A path: where it starts ("mydrive", or "unknown" with the id the
\* fallback names) and the folder names after it.
NoPath == [root |-> "none", id |-> 0, names |-> <<>>]

WalkIdle == [parents |-> <<>>, folder_id |-> 0, stack |-> <<>>,
             pc |-> "idle", value |-> NoPath, fetched |-> <<>>,
             failed |-> FALSE]

\* A second AdobeLightroomAuth, in another process, and how far its
\* _save_tokens has come: token_data and expires_at are its local variables.
WriterIdle == [pc |-> "idle", self |-> AdobeNew, token_data |-> NoFile,
               expires_at |-> NoTime]

\* Nothing of menus.py is running and no second process is writing.
MenusIdle ==
    /\ selector = SelectorNew /\ backend = NoBackend /\ listed = {}
    /\ selPc = "idle" /\ sel = SelIdle
    /\ walk = WalkIdle
    /\ writer = WriterIdle

NoCall == [op |-> "none", ret |-> "None", refreshes |-> 0, interactive |-> 0,
           refreshed |-> FALSE, stale |-> FALSE, token |-> None,
           expired |-> FALSE, refreshedFirst |-> FALSE,
           service |-> "none", corrupt |-> FALSE,
           afterSave |-> FALSE, loaded |-> AdobeNew,
           orig |-> <<>>, arg |-> <<>>, out |-> <<>>,
           args |-> [limit |-> NoLimit, offset |-> 0, next_link |-> NoLink],
           request |-> NoRequest, status |-> NoResponse,
           result |-> EmptyListing, replay |-> FALSE, failed |-> FALSE,
           valid |-> FALSE, removed |-> {}, via |-> "none", nav |-> NoNav,
           has_refresh |-> FALSE]

BoolStr(b) == IF b THEN "True" ELSE "False"

\* The stored Adobe record holds a refresh token and no valid session.
AdobeStoredStale(file, t) ==
    /\ file.exists /\ ~file.corrupt
    /\ file.refresh_token # None
    /\ file.expires_at = NoIso \/ IsIso(file.expires_at)
    /\ ~(/\ file.access_token # None
          /\ file.expires_at # NoIso
          /\ t < FromIsoFormat(file.expires_at) - SKEW)

\* The stored Google credentials hold a refresh token and no valid session.
GoogleStoredStale(file, t) ==
    /\ file.exists /\ ~file.corrupt
    /\ file.credentials.present
    /\ file.credentials.refresh_token # None
    /\ ~CredValid(file.credentials, t)

\* The token files a run can find on disk.
AdobeFiles ==
    {NoFile, CorruptFile} \cup
    { [exists |-> TRUE, corrupt |-> FALSE, access_token |-> a,
       refresh_token |-> r, expires_at |-> x] :
         a \in {None, "a1"}, r \in {None, "r1"},
         x \in {NoIso, BadIso, IsoFormat(0), IsoFormat(2 * SKEW)} }

GooglePickles ==
    {NoPickle, CorruptPickle} \cup
    { [exists |-> TRUE, corrupt |-> FALSE,
       credentials |-> [present |-> TRUE, token |-> a, refresh_token |-> r,
                        expiry |-> x]] :
         a \in {None, "g0"}, r \in {None, "gr0"}, x \in {NoTime, 0, 2 * SKEW} }

MainIdle == [google_ok |-> "None", adobe_ok |-> "None", adobe_tried |-> FALSE,
             folder_id |-> None, album_id |-> None, catalogue_id |-> None,
             requests |-> {}, crashed |-> FALSE]

SyncIdle == [i |-> 0, batch |-> <<>>, k |-> 0, batches |-> <<>>,
             processed |-> <<>>, downloads |-> <<>>,
             content |-> [ok |-> FALSE, size |-> 0],
             item |-> [name |-> 0, asset_id |-> 0, requests |-> <<>>,
                       result |-> "None"],
             uuids |-> 0, asset_ids |-> <<>>, anyOk |-> FALSE, ret |-> "None"]

InitAuth ==
    /\ now = 0
    /\ client_configured \in BOOLEAN
    /\ adobe = AdobeNew
    /\ google = GoogleNew
    /\ \/ adobeFile \in AdobeFiles /\ googleFile = NoPickle
       \/ adobeFile = NoFile /\ googleFile \in GooglePickles
    /\ call = NoCall
    /\ lastRefreshAt = NoTime
    /\ mainPc = "idle" /\ mainSt = MainIdle
    /\ drive_files = <<>> /\ syncPc = "idle" /\ sync = SyncIdle
    /\ MenusIdle

\* time passes: the clock advances by the length of the validity margin
Tick ==
    /\ now < MaxTicks * SKEW
    /\ now' = now + SKEW
    /\ call' = NoCall
    /\ UNCHANGED <<client_configured, adobe, adobeFile, google, googleFile,
                   lastRefreshAt, mainVars, menuVars, storeVars, syncVars>>

\* adobe_auth.authenticate().  The call record keeps whether the answer to
\* a successful refresh carried a refresh_token.
AdobeAuth ==
    \E env \in AdobeEnvs :
      LET a == AdobeAuthenticate(adobe, adobeFile, now, client_configured, env)
      IN  /\ adobe' = a.self
          /\ adobeFile' = a.file
          /\ lastRefreshAt' = IF a.refreshes > 0 THEN now ELSE lastRefreshAt
          /\ call' = [NoCall EXCEPT !.op = "adobe.authenticate",
                        !.ret = BoolStr(a.ret), !.refreshes = a.refreshes,
                        !.interactive = a.interactive,
                        !.refreshed = a.refreshed,
                        !.stale = client_configured
                                  /\ AdobeStoredStale(adobeFile, now),
                        !.corrupt = adobeFile.corrupt,
                        !.has_refresh = /\ a.refreshed
                                        /\ env.refresh_body.has_refresh]
          /\ UNCHANGED <<now, client_configured, google, googleFile,
                         mainVars, menuVars, storeVars, syncVars>>

\* google_auth.authenticate()
GoogleAuth ==
    \E env \in GoogleEnvs :
      LET g == GoogleAuthenticate(google, googleFile, now, env)
      IN  /\ google' = g.self
          /\ googleFile' = g.file
          /\ call' = [NoCall EXCEPT !.op = "google.authenticate",
                        !.ret = g.ret, !.refreshes = g.refreshes,
                        !.interactive = g.interactive,
                        !.refreshed = g.refreshed,
                        !.stale = GoogleStoredStale(googleFile, now),
                        !.corrupt = googleFile.corrupt]
          /\ UNCHANGED <<now, client_configured, adobe, adobeFile,
                         lastRefreshAt, mainVars, menuVars, storeVars,
                         syncVars>>

\* adobe_auth.get_headers(): the call record keeps the token handed out,
\* whether it was past its expiry and whether a refresh was attempted since
AdobeGetHeaders ==
    /\ call' = [NoCall EXCEPT !.op = "adobe.get_headers",
                  !.ret = BoolStr(GetHeaders(adobe) # None),
                  !.token = GetHeaders(adobe),
                  !.expired = adobe.token_expires # NoTime
                              /\ now >= adobe.token_expires,
                  !.refreshedFirst = lastRefreshAt # NoTime
                              /\ lastRefreshAt >= adobe.token_expires]
    /\ UNCHANGED <<authVars, mainVars, menuVars, storeVars, syncVars>>

\* adobe_auth.make_authenticated_request(...) without caller headers: the
\* call record keeps the token sent in the Authorization header
AdobeRequest ==
    /\ \E status \in Statuses :
         LET resp == MakeAuthenticatedRequest(adobe, <<>>, status)
         IN  call' = [NoCall EXCEPT !.op = "adobe.request",
                        !.ret = IF resp.raised THEN "Raised" ELSE "True",
                        !.token = IF resp.sent THEN resp.headers["Authorization"]
                                  ELSE None,
                        !.expired = adobe.token_expires # NoTime
                                    /\ now >= adobe.token_expires,
                        !.refreshedFirst = lastRefreshAt # NoTime
                                    /\ lastRefreshAt >= adobe.token_expires]
    /\ UNCHANGED <<authVars, mainVars, menuVars, storeVars, syncVars>>

NextAuth ==
    Tick \/ AdobeAuth \/ GoogleAuth \/ AdobeGetHeaders \/ AdobeRequest

SpecAuth == InitAuth /\ [][NextAuth]_vars

----------------------------------------------------------------------------
(* SyncLogic: the transfer pipeline *)

batch_size == 5

NoId == 0               \* an entry without an 'id' key
NoMime == <<>>          \* an entry without a 'mimeType' key
OctetStream == <<"application", "octet-stream">>

\* A MIME type is the sequence of its '/'-separated segments;
\* str.startswith(p + '/')
StartsWithSegment(mime, p) == Len(mime) >= 2 /\ mime[1] = p

\* A subtype that falls back to 'video' for what is neither image nor video.
GetAssetSubtype_DefaultVideo(mime_type) ==
    IF StartsWithSegment(mime_type, "image") THEN "image" ELSE "video"

\* _get_asset_subtype
GetAssetSubtype(mime_type) ==
    IF StartsWithSegment(mime_type, "image") THEN "image"
    ELSE IF StartsWithSegment(mime_type, "video") THEN "video"
    ELSE "image"

\* The kinds of entry a Drive listing can hold; the entry at position n is
\* named n.
FileKinds == {"image", "video", "pdf", "noid"}

FileOf(kind, n) ==
    [name |-> n,
     id |-> IF kind = "noid" THEN NoId ELSE n,
     mimeType |-> CASE kind = "image" -> <<"image", "jpeg">>
                    [] kind = "video" -> <<"video", "mp4">>
                    [] kind = "pdf" -> <<"application", "pdf">>
                    [] OTHER -> NoMime]

KindCycle == <<"image", "noid", "video", "pdf">>

\* The source listings: every combination of kinds up to MaxFreeFiles
\* entries, and for longer listings the kinds in rotation.
SourceListings ==
    { [n \in 1..Len(ks) |-> FileOf(ks[n], n)] :
        ks \in UNION { [1..len -> FileKinds] : len \in 0..MaxFreeFiles } }
    \cup
    { [n \in 1..len |-> FileOf(KindCycle[((n + r) % 4) + 1], n)] :
        len \in (MaxFreeFiles + 1)..MaxFiles, r \in 0..3 }

\* file.get('mimeType', 'application/octet-stream')
MimeOf(file) == IF file.mimeType = NoMime THEN OctetStream ELSE file.mimeType

\* drive_files[i:i + batch_size] cut one entry short
BatchAt_Short(files, i) ==
    SubSeq(files, i + 1,
           IF i + batch_size - 1 < Len(files) THEN i + batch_size - 1
           ELSE Len(files))

\* drive_files[i:i + batch_size], i counted from 0
BatchAt(files, i) ==
    SubSeq(files, i + 1,
           IF i + batch_size < Len(files) THEN i + batch_size ELSE Len(files))

\* A create or upload answer taken as accepted whatever it is.
Accepted_Always(resp) == TRUE

\* response.status_code in [201, 200] on a response that did not raise
Accepted(resp) == ~resp.raised /\ resp.status \in {201, 200}

NoItem == [name |-> 0, asset_id |-> 0, requests |-> <<>>, result |-> "None"]

NoContent == [ok |-> FALSE, size |-> 0]

\* Python truth of the value _download_file_from_drive returns
Truthy(content) == content.ok /\ content.size > 0

\* What a download can yield: an exception (None is returned), no bytes,
\* some bytes.
DownloadOutcomes == {NoContent, [ok |-> TRUE, size |-> 0],
                     [ok |-> TRUE, size |-> 3]}

Request(kind, asset_id, subtype, resp) ==
    [kind |-> kind, asset_id |-> asset_id, subtype |-> subtype,
     status |-> resp.status, headers |-> resp.headers,
     attempts |-> resp.attempts]

\* An entry without an id processed like any other.
Skipped_Never(file) == FALSE

\* if not file_id: continue
Skipped(file) == file.id = NoId

\* One asset id drawn for the whole run.
Uuid4_Once(n) == 1

\* uuid.uuid4() after n earlier draws: a value none of them gave
Uuid4(n) == n + 1

\* The headers of a Create request without the precondition.
CreateHeaders_NoPrecondition == ("Content-Type" :> JsonType)

\* The headers _upload_file_to_lightroom passes with its Create request
CreateHeaders == ("Content-Type" :> JsonType) @@ ("If-None-Match" :> "*")

\* upload_headers
UploadHeaders(mime_type, size) ==
    ("Content-Type" :> mime_type) @@ ("Content-Length" :> size)

\* The headers passed with the Associate request
AssociateHeaders == ("Content-Type" :> JsonType)

\* An exception of one item leaving sync_folder_to_album.
AfterItem_Propagate(item) == IF item.result = "False" THEN "done" ELSE "file"

\* Where the loop goes once _upload_file_to_lightroom has returned: its
\* except clauses turn every failure into a False, so on to the next entry
AfterItem(item) == "file"

\* The item record once _upload_file_to_lightroom has returned.
Returned(item, value) == [item EXCEPT !.result = BoolStr(value)]

\* The managers a pipeline can be handed.
SyncContexts ==
    { [service |-> TRUE, access_token |-> "a1", account_info |-> TRUE],
      [service |-> TRUE, access_token |-> "a1", account_info |-> FALSE],
      [service |-> TRUE, access_token |-> None, account_info |-> FALSE],
      [service |-> FALSE, access_token |-> "a1", account_info |-> TRUE] }

InitSync ==
    /\ now = 0
    /\ client_configured = TRUE
    /\ \E c \in SyncContexts :
         /\ adobe = [AdobeNew EXCEPT !.access_token = c.access_token,
                                     !.account_info = c.account_info]
         /\ google = [GoogleNew EXCEPT !.service = c.service]
    /\ adobeFile = NoFile
    /\ googleFile = NoPickle
    /\ call = NoCall
    /\ lastRefreshAt = NoTime
    /\ mainPc = "idle" /\ mainSt = MainIdle
    /\ drive_files \in SourceListings
    /\ syncPc = "start"
    /\ sync = SyncIdle
    /\ MenusIdle

\* sync_folder_to_album, entry: nothing to do for an empty listing
SyncStart ==
    /\ syncPc = "start"
    /\ IF drive_files = <<>>
       THEN syncPc' = "done" /\ sync' = sync
       ELSE syncPc' = "batch" /\ sync' = [sync EXCEPT !.i = 0]
    /\ UNCHANGED <<authVars, call, mainVars, menuVars, storeVars, drive_files>>

\* for i in range(0, len(drive_files), batch_size): take the next batch
SyncBatch ==
    /\ syncPc = "batch"
    /\ IF sync.i < Len(drive_files)
       THEN /\ syncPc' = "file"
            /\ sync' = [sync EXCEPT !.batch = BatchAt(drive_files, sync.i),
                           !.batches = Append(@, BatchAt(drive_files, sync.i)),
                           !.k = 1]
       ELSE syncPc' = "done" /\ sync' = sync
    /\ UNCHANGED <<authVars, call, mainVars, menuVars, storeVars, drive_files>>

\* for file in batch: take the next entry, skip it when it has no id
SyncFile ==
    /\ syncPc = "file"
    /\ IF sync.k > Len(sync.batch)
       THEN /\ syncPc' = "batch"
            /\ sync' = [sync EXCEPT !.i = @ + batch_size]
       ELSE LET file == sync.batch[sync.k]
            IN  IF Skipped(file)
                THEN /\ syncPc' = "file"
                     /\ sync' = [sync EXCEPT !.processed = Append(@, file.name),
                                    !.k = @ + 1]
                ELSE /\ syncPc' = "download"
                     /\ sync' = [sync EXCEPT !.processed = Append(@, file.name)]
    /\ UNCHANGED <<authVars, call, mainVars, menuVars, storeVars, drive_files>>

\* _download_file_from_drive and the test of what it returned
SyncDownload ==
    /\ syncPc = "download"
    /\ \E content \in DownloadOutcomes :
         /\ google.service \/ content = NoContent
         /\ LET file == sync.batch[sync.k]
                s1 == [sync EXCEPT !.downloads = Append(@, file.name),
                                   !.content = content]
            IN  IF Truthy(content)
                THEN syncPc' = "create" /\ sync' = s1
                ELSE /\ syncPc' = "file"
                     /\ sync' = [s1 EXCEPT !.k = @ + 1]
    /\ UNCHANGED <<authVars, call, mainVars, menuVars, storeVars, drive_files>>


\* _upload_file_to_lightroom, step 1: mint the asset id, build the create
\* payload (which reads account_info) and PUT the asset record
SyncCreate ==
    /\ syncPc = "create"
    /\ LET file == sync.batch[sync.k]
           asset_id == Uuid4(sync.uuids)
           item0 == [NoItem EXCEPT !.name = file.name, !.asset_id = asset_id]
           s1 == [sync EXCEPT !.uuids = @ + 1,
                              !.asset_ids = Append(@, asset_id)]
       IN  IF ~adobe.account_info
           THEN /\ syncPc' = AfterItem(Returned(item0, FALSE))
                /\ sync' = [s1 EXCEPT !.item = Returned(item0, FALSE),
                                       !.k = @ + 1]
           ELSE \E status \in Statuses :
                  LET resp == MakeAuthenticatedRequest(adobe, CreateHeaders,
                                                       status)
                      reqs == IF resp.sent
                              THEN <<Request("create", asset_id,
                                        GetAssetSubtype(MimeOf(file)), resp)>>
                              ELSE <<>>
                      item1 == [item0 EXCEPT !.requests = reqs]
                  IN  IF Accepted(resp)
                      THEN /\ syncPc' = "upload"
                           /\ sync' = [s1 EXCEPT !.item = item1]
                      ELSE /\ syncPc' = AfterItem(Returned(item1, FALSE))
                           /\ sync' = [s1 EXCEPT !.item = Returned(item1, FALSE),
                                                  !.k = @ + 1]
    /\ UNCHANGED <<authVars, call, mainVars, menuVars, storeVars, drive_files>>

\* _upload_file_to_lightroom, step 2: PUT the binary content
SyncUpload ==
    /\ syncPc = "upload"
    /\ \E status \in Statuses :
         LET file == sync.batch[sync.k]
             resp == MakeAuthenticatedRequest(adobe,
                         UploadHeaders(MimeOf(file), sync.content.size),
                         status)
             reqs == IF resp.sent
                     THEN Append(sync.item.requests,
                              Request("upload", sync.item.asset_id, "", resp))
                     ELSE sync.item.requests
             item1 == [sync.item EXCEPT !.requests = reqs]
         IN  IF Accepted(resp)
             THEN /\ syncPc' = "associate"
                  /\ sync' = [sync EXCEPT !.item = item1]
             ELSE /\ syncPc' = AfterItem(Returned(item1, FALSE))
                  /\ sync' = [sync EXCEPT !.item = Returned(item1, FALSE),
                                           !.k = @ + 1]
    /\ UNCHANGED <<authVars, call, mainVars, menuVars, storeVars, drive_files>>

\* _upload_file_to_lightroom, step 3: add the asset to the album; a status
\* other than 200/201 on a response that did not raise is only a warning
SyncAssociate ==
    /\ syncPc = "associate"
    /\ \E status \in Statuses :
         LET resp == MakeAuthenticatedRequest(adobe, AssociateHeaders,
                                              status)
             reqs == IF resp.sent
                     THEN Append(sync.item.requests,
                              Request("associate", sync.item.asset_id, "", resp))
                     ELSE sync.item.requests
             item1 == [sync.item EXCEPT !.requests = reqs]
         IN  /\ syncPc' = AfterItem(Returned(item1, ~resp.raised))
             /\ sync' = [sync EXCEPT !.item = Returned(item1, ~resp.raised),
                                      !.anyOk = @ \/ ~resp.raised,
                                      !.k = @ + 1]
    /\ UNCHANGED <<authVars, call, mainVars, menuVars, storeVars, drive_files>>

NextSync ==
    \/ SyncStart \/ SyncBatch \/ SyncFile \/ SyncDownload
    \/ SyncCreate \/ SyncUpload \/ SyncAssociate

SpecSync == InitSync /\ [][NextSync]_vars

\* The pipeline is a single sequential loop: it always takes its next step.
SpecSyncFair == SpecSync /\ WF_vars(NextSync)

----------------------------------------------------------------------------
(* main.py: the whole run *)

\* main returns when an authenticate() did not return True (an exception
\* ends the run as well); otherwise it goes on to the next step
AfterAuth_Ignore(ret, next) == next

AfterAuth(ret, next) == IF ret = "True" THEN next ELSE "done"

\* The listings list_drive_files can return inside a run.
MainListings ==
    { [n \in 1..Len(ks) |-> FileOf(ks[n], n)] :
        ks \in UNION { [1..len -> FileKinds] : len \in 0..MainMaxFiles } }

InitMain ==
    /\ now = 0
    /\ client_configured \in BOOLEAN
    /\ adobe = AdobeNew
    /\ google = GoogleNew
    /\ \/ adobeFile \in AdobeFiles /\ googleFile = NoPickle
       \/ adobeFile = NoFile /\ googleFile \in GooglePickles
    /\ call = NoCall
    /\ lastRefreshAt = NoTime
    /\ mainPc = "google_auth" /\ mainSt = MainIdle
    /\ drive_files = <<>> /\ syncPc = "idle" /\ sync = SyncIdle
    /\ MenusIdle

\* google_auth = GoogleDriveAuth(); if not google_auth.authenticate(): return
MainGoogleAuth ==
    /\ mainPc = "google_auth"
    /\ \E env \in GoogleEnvs :
         LET g == GoogleAuthenticate(google, googleFile, now, env)
         IN  /\ google' = g.self
             /\ googleFile' = g.file
             /\ call' = [NoCall EXCEPT !.op = "google.authenticate",
                           !.ret = g.ret, !.refreshes = g.refreshes,
                           !.interactive = g.interactive,
                           !.refreshed = g.refreshed,
                           !.stale = GoogleStoredStale(googleFile, now)]
             /\ mainSt' = [mainSt EXCEPT !.google_ok = g.ret,
                                         !.crashed = g.ret = "Raised"]
             /\ mainPc' = AfterAuth(g.ret, "google_test")
    /\ UNCHANGED <<now, client_configured, adobe, adobeFile, lastRefreshAt,
                   syncVars, menuVars, storeVars>>

\* google_auth.test_connection(): get_service() authenticates again when no
\* service was built, then the about request is made if there is a service
MainGoogleTest ==
    /\ mainPc = "google_test"
    /\ \E env \in GoogleEnvs :
         LET g == GetService(google, googleFile, now, env)
         IN  /\ google' = g.self
             /\ googleFile' = g.file
             /\ mainSt' = [mainSt EXCEPT
                    !.requests = IF g.self.service /\ g.ret = "True"
                                 THEN @ \cup {"about"} ELSE @,
                    !.crashed = g.ret = "Raised"]
             /\ mainPc' = IF g.ret = "Raised" THEN "done" ELSE "adobe_auth"
    /\ call' = NoCall
    /\ UNCHANGED <<now, client_configured, adobe, adobeFile, lastRefreshAt,
                   syncVars, menuVars, storeVars>>

\* adobe_auth = AdobeLightroomAuth(); if not adobe_auth.authenticate(): return
MainAdobeAuth ==
    /\ mainPc = "adobe_auth"
    /\ \E env \in AdobeEnvs :
         LET a == AdobeAuthenticate(adobe, adobeFile, now, client_configured,
                                    env)
         IN  /\ adobe' = a.self
             /\ adobeFile' = a.file
             /\ lastRefreshAt' = IF a.refreshes > 0 THEN now
                                  ELSE lastRefreshAt
             /\ call' = [NoCall EXCEPT !.op = "adobe.authenticate",
                           !.ret = BoolStr(a.ret), !.refreshes = a.refreshes,
                           !.interactive = a.interactive,
                           !.refreshed = a.refreshed,
                           !.stale = client_configured
                                     /\ AdobeStoredStale(adobeFile, now)]
             /\ mainSt' = [mainSt EXCEPT !.adobe_ok = BoolStr(a.ret),
                                         !.adobe_tried = TRUE]
             /\ mainPc' = AfterAuth(BoolStr(a.ret), "adobe_test")
    /\ UNCHANGED <<now, client_configured, google, googleFile, syncVars,
                   menuVars, storeVars>>

\* adobe_auth.test_connection(): account_info is set only by a 200 answer
\* that parses
MainAdobeTest ==
    /\ mainPc = "adobe_test"
    /\ \E ok \in BOOLEAN :
         /\ IF adobe.access_token = None
            THEN adobe' = adobe /\ mainSt' = mainSt
            ELSE /\ adobe' = [adobe EXCEPT !.account_info = @ \/ ok]
                 /\ mainSt' = [mainSt EXCEPT !.requests = @ \cup {"account"}]
    /\ mainPc' = "select_folder"
    /\ call' = NoCall
    /\ UNCHANGED <<now, client_configured, adobeFile, google, googleFile,
                   lastRefreshAt, syncVars, menuVars, storeVars>>

\* GoogleDriveFolderSelector(google_auth).select_folder(): without a service
\* every listing fails and nothing can be selected
MainSelectFolder ==
    /\ mainPc = "select_folder"
    /\ \E env \in GoogleEnvs, chosen \in {None, "folder1"} :
         LET g == GetService(google, googleFile, now, env)
             usable == g.ret = "True" /\ g.self.service
             folder == IF usable THEN chosen ELSE None
         IN  /\ google' = g.self
             /\ googleFile' = g.file
             /\ mainSt' = [mainSt EXCEPT
                    !.requests = IF usable THEN @ \cup {"folder_list"} ELSE @,
                    !.folder_id = folder,
                    !.crashed = g.ret = "Raised"]
             /\ mainPc' = IF g.ret = "Raised" \/ folder = None THEN "done"
                          ELSE "select_album"
    /\ call' = NoCall
    /\ UNCHANGED <<now, client_configured, adobe, adobeFile, lastRefreshAt,
                   syncVars, menuVars, storeVars>>

\* LightroomAlbumSelector(adobe_auth).select_album(): the catalog request,
\* then the album listing; on a failure it returns two values, which main
\* cannot unpack into three
MainSelectAlbum ==
    /\ mainPc = "select_album"
    /\ \E catalog_ok \in BOOLEAN, chosen \in {None, "album1"} :
         IF ~catalog_ok
         THEN /\ mainSt' = [mainSt EXCEPT !.requests = @ \cup {"catalog"},
                                          !.crashed = TRUE]
              /\ mainPc' = "done"
         ELSE IF chosen = None
         THEN /\ mainSt' = [mainSt EXCEPT
                     !.requests = @ \cup {"catalog", "album_list"},
                     !.crashed = TRUE]
              /\ mainPc' = "done"
         ELSE /\ mainSt' = [mainSt EXCEPT
                     !.requests = @ \cup {"catalog", "album_list"},
                     !.album_id = chosen, !.catalogue_id = "catalog1"]
              /\ mainPc' = "list_files"
    /\ call' = NoCall
    /\ UNCHANGED <<authVars, syncVars, menuVars, storeVars>>

\* drive_files = sync_tool.list_drive_files(folder_id), handed to
\* sync_folder_to_album; a listing error (failed) yields the empty list.
\* The call record keeps whether the listing request raised.
MainListFiles ==
    /\ mainPc = "list_files"
    /\ \E files \in MainListings, failed \in BOOLEAN :
         /\ ~google.service => failed
         /\ failed => files = <<>>
         /\ drive_files' = files
         /\ call' = [NoCall EXCEPT !.op = "list_drive_files",
                                   !.failed = failed]
    /\ mainSt' = [mainSt EXCEPT
           !.requests = IF google.service THEN @ \cup {"file_list"} ELSE @]
    /\ mainPc' = "sync"
    /\ syncPc' = "start"
    /\ sync' = SyncIdle
    /\ UNCHANGED <<authVars, menuVars, storeVars>>

\* sync_folder_to_album has returned: main ends
MainReturn ==
    /\ mainPc = "sync" /\ syncPc = "done"
    /\ mainPc' = "done"
    /\ call' = NoCall
    /\ UNCHANGED <<authVars, mainSt, syncVars, menuVars, storeVars>>

NextMain ==
    \/ MainGoogleAuth \/ MainGoogleTest \/ MainAdobeAuth \/ MainAdobeTest
    \/ MainSelectFolder \/ MainSelectAlbum \/ MainListFiles \/ MainReturn
    \/ NextSync

SpecMain == InitMain /\ [][NextMain]_vars

----------------------------------------------------------------------------
(* The token store: what is on disk, reloaded and looked at *)

\* TokenManager.is_authenticated: for Google the pickle only has to exist;
\* for Adobe the record has to parse and carry an expires_at more than five
\* minutes ahead (any exception gives False)
IsAuthenticated(service, gfile, afile, t) ==
    IF service = "google" THEN gfile.exists
    ELSE IF service = "adobe"
    THEN /\ afile.exists /\ ~afile.corrupt
         /\ afile.expires_at # NoIso
         /\ IsIso(afile.expires_at)
         /\ t < FromIsoFormat(afile.expires_at) - SKEW
    ELSE FALSE

\* A new AdobeLightroomAuth reads the token file: _load_tokens() on an
\* instance that holds nothing yet.  The call record keeps what it loaded,
\* whether the file was written by the authenticate() just before, and
\* whether the instance then takes the session as valid: _load_tokens()
\* and _is_token_valid(), as authenticate() asks.
AdobeReload ==
    /\ LET l == LoadTokens(AdobeNew, adobeFile)
       IN  call' = [NoCall EXCEPT !.op = "adobe.load_tokens",
                      !.ret = BoolStr(l.ret),
                      !.loaded = l.self,
                      !.valid = l.ret /\ IsTokenValid(l.self, now),
                      !.corrupt = adobeFile.corrupt,
                      !.afterSave = /\ call.op = "adobe.authenticate"
                                    /\ call.ret = "True"
                                    /\ call.refreshes + call.interactive > 0]
    /\ UNCHANGED <<authVars, mainVars, menuVars, storeVars, syncVars>>

\* token_manager.is_authenticated(service)
TokenManagerIsAuthenticated ==
    /\ \E service \in {"google", "adobe"} :
         call' = [NoCall EXCEPT !.op = "token_manager.is_authenticated",
                    !.service = service,
                    !.ret = BoolStr(IsAuthenticated(service, googleFile,
                                                    adobeFile, now)),
                    !.corrupt = IF service = "google" THEN googleFile.corrupt
                                ELSE adobeFile.corrupt]
    /\ UNCHANGED <<authVars, mainVars, menuVars, storeVars, syncVars>>

\* The arguments clear_tokens is called with: no service, the empty name,
\* the two services, and a name that is neither.
ServiceArgs == {None, "", "google", "adobe", "dropbox"}

\* A files_to_remove that names both files whatever the service.
FilesToRemove_All(service) == <<"google", "adobe">>

\* clear_tokens, files_to_remove: the token files named, in order, by the
\* service they belong to ('if service' is false for None and for '')
FilesToRemove(service) ==
    IF service \notin {None, ""}
    THEN IF service = "google" THEN <<"google">>
         ELSE IF service = "adobe" THEN <<"adobe">>
         ELSE <<>>
    ELSE <<"google", "adobe">>

\* clear_tokens: the loop over files_to_remove.  failAt is the position of
\* the file whose os.remove raises (0: none does); an existing file before
\* that position is removed, and the exception leaves the loop.
ClearTokens(service, gfile, afile, failAt) ==
    LET files == FilesToRemove(service)
        Exists(f) == IF f = "google" THEN gfile.exists ELSE afile.exists
        stop == IF failAt \in 1..Len(files) /\ Exists(files[failAt])
                THEN failAt ELSE Len(files) + 1
        removed == {files[n] : n \in {k \in 1..Len(files) :
                                         k < stop /\ Exists(files[k])}}
    IN  [gfile |-> IF "google" \in removed THEN NoPickle ELSE gfile,
         afile |-> IF "adobe" \in removed THEN NoFile ELSE afile,
         removed |-> removed,
         raised |-> stop <= Len(files)]

\* token_manager.clear_tokens(service)
TokenManagerClearTokens ==
    /\ \E service \in ServiceArgs, failAt \in 0..2 :
         LET c == ClearTokens(service, googleFile, adobeFile, failAt)
         IN  /\ googleFile' = c.gfile
             /\ adobeFile' = c.afile
             /\ call' = [NoCall EXCEPT !.op = "token_manager.clear_tokens",
                           !.service = service,
                           !.ret = IF c.raised THEN "Raised" ELSE "None",
                           !.removed = c.removed]
    /\ UNCHANGED <<now, client_configured, adobe, google, lastRefreshAt,
                   mainVars, menuVars, storeVars, syncVars>>

NextStore ==
    Tick \/ AdobeAuth \/ GoogleAuth \/ AdobeReload
        \/ TokenManagerIsAuthenticated

SpecStore == InitAuth /\ [][NextStore]_vars

\* The token manager alone, over any two token files.
InitLogout ==
    /\ now = 0
    /\ client_configured = TRUE
    /\ adobe = AdobeNew
    /\ google = GoogleNew
    /\ adobeFile \in AdobeFiles /\ googleFile \in GooglePickles
    /\ call = NoCall
    /\ lastRefreshAt = NoTime
    /\ mainPc = "idle" /\ mainSt = MainIdle
    /\ drive_files = <<>> /\ syncPc = "idle" /\ sync = SyncIdle
    /\ MenusIdle

NextLogout == Tick \/ TokenManagerIsAuthenticated \/ TokenManagerClearTokens

SpecLogout == InitLogout /\ [][NextLogout]_vars

----------------------------------------------------------------------------
(* _save_tokens of one process while another process reads the file *)

\* The other process has loaded the token file, as authenticate() does before
\* it refreshes or exchanges a code.
InitSave ==
    /\ now = 0
    /\ client_configured = TRUE
    /\ adobe = AdobeNew
    /\ google = GoogleNew
    /\ adobeFile \in AdobeFiles /\ googleFile = NoPickle
    /\ call = NoCall
    /\ lastRefreshAt = NoTime
    /\ mainPc = "idle" /\ mainSt = MainIdle
    /\ drive_files = <<>> /\ syncPc = "idle" /\ sync = SyncIdle
    /\ selector = SelectorNew /\ backend = NoBackend /\ listed = {}
    /\ selPc = "idle" /\ sel = SelIdle
    /\ walk = WalkIdle
    /\ writer = [WriterIdle EXCEPT !.self = LoadTokens(AdobeNew, adobeFile).self]

\* _save_tokens up to and including open(self.token_file, 'w'): token_data
\* is built from the token response, and opening the file for writing
\* truncates it.  Until json.dump has written the record and the file is
\* closed, the file holds nothing or the first part of the record, which
\* json.load rejects.
SaveOpen ==
    /\ writer.pc = "idle"
    /\ \E resp \in TokenBodies :
         LET s == SaveTokens(writer.self, adobeFile, resp, now, TRUE)
         IN  /\ s.ret
             /\ writer' = [writer EXCEPT !.pc = "dump",
                                         !.token_data = s.file,
                                         !.expires_at = s.self.token_expires]
    /\ adobeFile' = CorruptFile
    /\ call' = [NoCall EXCEPT !.op = "adobe.save_tokens: open"]
    /\ UNCHANGED <<now, client_configured, adobe, google, googleFile,
                   lastRefreshAt, mainVars, menuVars, syncVars>>

\* json.dump(token_data, f) and the end of the with block: the record is on
\* disk; then the instance variables are updated.
SaveDump ==
    /\ writer.pc = "dump"
    /\ adobeFile' = writer.token_data
    /\ writer' = [WriterIdle EXCEPT
                    !.self = [writer.self EXCEPT
                        !.access_token = writer.token_data.access_token,
                        !.refresh_token = writer.token_data.refresh_token,
                        !.token_expires = writer.expires_at]]
    /\ call' = [NoCall EXCEPT !.op = "adobe.save_tokens: dump"]
    /\ UNCHANGED <<now, client_configured, adobe, google, googleFile,
                   lastRefreshAt, mainVars, menuVars, syncVars>>

NextSave ==
    Tick \/ SaveOpen \/ SaveDump \/ AdobeReload
        \/ TokenManagerIsAuthenticated

SpecSave == InitSave /\ [][NextSave]_vars

----------------------------------------------------------------------------
(* LightroomAlbumSelector: the catalog and its albums *)

display_page_size == 25

\* The server side: the catalog answer carries an id or not, the catalog
\* holds albums 1..albums, and the album at position blank (if any) comes
\* without an 'id' key.
AlbumCounts ==
    {0, 1, display_page_size, display_page_size + 1, MaxAlbums}

Backends ==
    { [catalog_id |-> c, albums |-> n, blank |-> k] :
        c \in {None, "c1"}, n \in AlbumCounts, k \in {0, 1} }

\* The answers a catalog or album request can get.
AlbumStatuses == {NoResponse, 200, 401, 403, 404, 500}

\* The body of a 200 answer to an album listing request: the albums after
\* the position asked for (that of the cursor, or the offset parameter, or
\* 0), as many as the limit (all of them without one), and links.next.href
\* when more remain.
AlbumsBody(b, url, params) ==
    LET after == IF url.href # <<>> THEN url.href[1]
                 ELSE IF "offset" \in DOMAIN params THEN params["offset"]
                 ELSE 0
        limit == IF url.href # <<>> THEN url.href[2]
                 ELSE IF "limit" \in DOMAIN params THEN params["limit"]
                 ELSE b.albums
        last == IF after + limit < b.albums THEN after + limit ELSE b.albums
    IN  [resources |-> IF last > after
                       THEN [i \in 1..(last - after) |-> after + i]
                       ELSE <<>>,
         next |-> IF last < b.albums THEN <<last, limit>> ELSE <<>>]

\* The ids of the albums kept: if album['id']
WithId(resources, b) ==
    LET Keep(a) == a # b.blank
    IN  SelectSeq(resources, Keep)

\* get_catalog_id: the headers are read again, the request is sent, and the
\* catalog id is kept only from a 200 answer that carries one
GetCatalogId(self, auth, b, status) ==
    LET s1 == [self EXCEPT !.headers = GetHeaders(auth)]
    IN  IF status = 200 /\ b.catalog_id # None
        THEN [self |-> [s1 EXCEPT !.catalog_id = b.catalog_id], ret |-> TRUE]
        ELSE [self |-> s1, ret |-> FALSE]

\* limit and offset made parameters whether or not a next_link is given.
ListParams_Always(limit, offset, next_link) ==
    (IF limit # NoLimit THEN "limit" :> limit ELSE <<>>)
        @@ (IF offset > 0 THEN "offset" :> offset ELSE <<>>)

\* params: limit and offset only if a next_link is not being used
ListParams(limit, offset, next_link) ==
    IF next_link # NoLink THEN <<>>
    ELSE (IF limit # NoLimit THEN "limit" :> limit ELSE <<>>)
            @@ (IF offset > 0 THEN "offset" :> offset ELSE <<>>)

\* url = next_link if next_link else the albums URL of the catalog
ListUrl(self, next_link) ==
    IF next_link # NoLink THEN next_link
    ELSE [catalog |-> self.catalog_id, href |-> <<>>]

\* A selector taken to have its catalog id whatever it holds.
HasCatalog_Always(self) == TRUE

\* the opposite of: if not self.catalog_id
HasCatalog(self) == self.catalog_id # None

\* list_albums that forgets the catalog id when the answer is not a 200.
ListAlbums_Forgetful(self, limit, offset, next_link, b, status) ==
    IF ~HasCatalog(self)
    THEN [self |-> self, request |-> NoRequest, status |-> NoResponse,
          ret |-> EmptyListing]
    ELSE LET url == ListUrl(self, next_link)
             params == ListParams(limit, offset, next_link)
             body == AlbumsBody(b, url, params)
         IN  [self |-> IF status = 200 THEN self
                       ELSE [self EXCEPT !.catalog_id = None],
              request |-> [sent |-> TRUE, url |-> url, params |-> params],
              status |-> status,
              ret |-> IF status = 200
                      THEN [albums |-> WithId(body.resources, b),
                            next |-> IF body.next # <<>>
                                     THEN [catalog |-> self.catalog_id,
                                           href |-> body.next]
                                     ELSE NoLink]
                      ELSE EmptyListing]

\* list_albums: nothing is sent without a catalog id; the URL is the
\* next_link when one is given, and limit and offset become parameters only
\* without one; every answer but a 200 gives [], None
ListAlbums(self, limit, offset, next_link, b, status) ==
    IF ~HasCatalog(self)
    THEN [self |-> self, request |-> NoRequest, status |-> NoResponse,
          ret |-> EmptyListing]
    ELSE LET url == ListUrl(self, next_link)
             params == ListParams(limit, offset, next_link)
             body == AlbumsBody(b, url, params)
         IN  [self |-> self,
              request |-> [sent |-> TRUE, url |-> url, params |-> params],
              status |-> status,
              ret |-> IF status = 200
                      THEN [albums |-> WithId(body.resources, b),
                            next |-> IF body.next # <<>>
                                     THEN [catalog |-> self.catalog_id,
                                           href |-> body.next]
                                     ELSE NoLink]
                      ELSE EmptyListing]

\* The call record of a list_albums call; replay tells that a call with the
\* same limit and offset and no next_link was answered before.
ListCall(limit, offset, next_link, r) ==
    [NoCall EXCEPT !.op = "selector.list_albums",
        !.args = [limit |-> limit, offset |-> offset, next_link |-> next_link],
        !.request = r.request, !.status = r.status, !.result = r.ret,
        !.replay = /\ next_link = NoLink
                   /\ \E x \in listed : x.limit = limit /\ x.offset = offset]

\* The pages returned so far, with the one of a call answered 200 that gave
\* limit and offset and no next_link.
Listed(limit, offset, next_link, r) ==
    IF next_link = NoLink /\ r.request.sent /\ r.status = 200
    THEN listed \cup {[limit |-> limit, offset |-> offset,
                       albums |-> r.ret.albums]}
    ELSE listed

\* The arguments a caller passes to list_albums.
Limits == {NoLimit, display_page_size}
Offsets == {0, display_page_size}
Links == {NoLink,
          [catalog |-> "c1", href |-> <<display_page_size, display_page_size>>]}

\* The selector is either used as an object (any sequence of calls) or runs
\* select_album.
InitAlbums ==
    /\ now = 0
    /\ client_configured = TRUE
    /\ adobe \in {AdobeNew, [AdobeNew EXCEPT !.access_token = "a1"]}
    /\ google = GoogleNew
    /\ adobeFile = NoFile /\ googleFile = NoPickle
    /\ call = NoCall
    /\ lastRefreshAt = NoTime
    /\ mainPc = "idle" /\ mainSt = MainIdle
    /\ drive_files = <<>> /\ syncPc = "idle" /\ sync = SyncIdle
    /\ selector = [SelectorNew EXCEPT !.headers = GetHeaders(adobe)]
    /\ backend \in Backends
    /\ backend.blank <= backend.albums
    /\ listed = {}
    /\ selPc \in {"idle", "start"}
    /\ sel = SelIdle
    /\ walk = WalkIdle
    /\ writer = WriterIdle

\* selector.get_catalog_id()
SelectorGetCatalogId ==
    /\ selPc = "idle"
    /\ \E status \in AlbumStatuses :
         LET g == GetCatalogId(selector, adobe, backend, status)
         IN  /\ selector' = g.self
             /\ call' = [NoCall EXCEPT !.op = "selector.get_catalog_id",
                            !.ret = BoolStr(g.ret), !.status = status]
    /\ UNCHANGED <<authVars, mainVars, syncVars, backend, listed, selPc, sel,
                   walk, storeVars>>

\* selector.list_albums(limit, offset, next_link)
SelectorListAlbums ==
    /\ selPc = "idle"
    /\ \E limit \in Limits, offset \in Offsets, next_link \in Links,
          status \in AlbumStatuses :
         LET r == ListAlbums(selector, limit, offset, next_link, backend,
                             status)
         IN  /\ selector' = r.self
             /\ call' = ListCall(limit, offset, next_link, r)
             /\ listed' = Listed(limit, offset, next_link, r)
    /\ UNCHANGED <<authVars, mainVars, syncVars, backend, selPc, sel, walk,
                   storeVars>>

\* select_album returning None, None
SelectFailed(st) ==
    [st EXCEPT !.ret = [values |-> 2, album_id |-> 0, catalog_id |-> None]]

\* select_album, step 1: if not self.get_catalog_id(): return None, None
SelCatalog ==
    /\ selPc = "start"
    /\ \E status \in AlbumStatuses :
         LET g == GetCatalogId(selector, adobe, backend, status)
         IN  /\ selector' = g.self
             /\ call' = [NoCall EXCEPT !.op = "selector.get_catalog_id",
                            !.ret = BoolStr(g.ret), !.status = status]
             /\ IF g.ret
                THEN selPc' = "first" /\ sel' = sel
                ELSE selPc' = "done" /\ sel' = SelectFailed(sel)
    /\ UNCHANGED <<authVars, mainVars, syncVars, backend, listed, walk,
                   storeVars>>

\* select_album, the initial load: list_albums(limit=display_page_size,
\* offset=0); without albums it returns None, None
SelFirstPage ==
    /\ selPc = "first"
    /\ \E status \in AlbumStatuses :
         LET r == ListAlbums(selector, display_page_size, 0, NoLink, backend,
                             status)
         IN  /\ selector' = r.self
             /\ call' = ListCall(display_page_size, 0, NoLink, r)
             /\ listed' = Listed(display_page_size, 0, NoLink, r)
             /\ IF r.ret.albums = <<>>
                THEN selPc' = "done" /\ sel' = SelectFailed(sel)
                ELSE /\ selPc' = "prompt"
                     /\ sel' = [sel EXCEPT
                            !.current_page_albums = r.ret.albums,
                            !.next_api_url = r.ret.next]
    /\ UNCHANGED <<authVars, mainVars, syncVars, backend, walk, storeVars>>

\* A checkpoint taken after the offset has moved on.
Checkpoint_AfterAdvance(offset, next_url) ==
    [offset |-> offset + display_page_size, next_url |-> next_url]

\* (current_api_offset, next_api_url), as pushed on previous_page_states
Checkpoint(offset, next_url) == [offset |-> offset, next_url |-> next_url]

\* A prompt that never offers 'p'.
ValidChoices_NoPrevious(st) ==
    (IF st.next_api_url # NoLink THEN {"n"} ELSE {})
    \cup {"number" : n \in 1..Len(st.current_page_albums)}

\* valid_choices of the prompt: 'p' with a page to go back to, 'n' with a
\* next URL, and the numbers of the albums shown ("number" for any of them)
ValidChoices(st) ==
    (IF st.previous_page_states # <<>> THEN {"p"} ELSE {})
    \cup (IF st.next_api_url # NoLink THEN {"n"} ELSE {})
    \cup {"number" : n \in 1..Len(st.current_page_albums)}

\* the user enters 'p': the last (offset, next_url) is popped and the page
\* at that offset is listed again.  The call record keeps, for a 'p' that
\* follows an 'n' at once, the navigation state before the 'n' and whether
\* the listing of the 'n' failed.
SelPrevious ==
    /\ selPc = "prompt"
    /\ "p" \in ValidChoices(sel)
    /\ sel.previous_page_states # <<>>
    /\ \E status \in AlbumStatuses :
         LET n == Len(sel.previous_page_states)
             prev == sel.previous_page_states[n]
             r == ListAlbums(selector, display_page_size, prev.offset, NoLink,
                             backend, status)
         IN  /\ selector' = r.self
             /\ call' = [ListCall(display_page_size, prev.offset, NoLink, r)
                           EXCEPT !.via = IF call.via = "n" THEN "np" ELSE "p",
                                  !.nav = IF call.via = "n" THEN call.nav
                                          ELSE NoNav,
                                  !.failed = /\ call.via = "n"
                                             /\ call.status # 200]
             /\ listed' = Listed(display_page_size, prev.offset, NoLink, r)
             /\ sel' = [sel EXCEPT
                    !.previous_page_states = SubSeq(@, 1, n - 1),
                    !.current_api_offset = prev.offset,
                    !.next_api_url = prev.next_url,
                    !.current_page_albums = r.ret.albums]
    /\ UNCHANGED <<authVars, mainVars, syncVars, backend, selPc, walk,
                   storeVars>>

\* the user enters 'n': the current (offset, next_url) is pushed and the
\* next page is fetched from next_api_url.  The call record keeps the
\* navigation state before the step.
SelNext ==
    /\ selPc = "prompt"
    /\ "n" \in ValidChoices(sel)
    /\ sel.next_api_url # NoLink
    /\ \E status \in AlbumStatuses :
         LET r == ListAlbums(selector, NoLimit, 0, sel.next_api_url, backend,
                             status)
         IN  /\ selector' = r.self
             /\ call' = [ListCall(NoLimit, 0, sel.next_api_url, r)
                           EXCEPT !.via = "n", !.nav = Nav(sel)]
             /\ listed' = Listed(NoLimit, 0, sel.next_api_url, r)
             /\ sel' = [sel EXCEPT
                    !.previous_page_states =
                        Append(@, Checkpoint(sel.current_api_offset,
                                             sel.next_api_url)),
                    !.current_api_offset = @ + display_page_size,
                    !.current_page_albums = r.ret.albums,
                    !.next_api_url = r.ret.next]
    /\ UNCHANGED <<authVars, mainVars, syncVars, backend, selPc, walk,
                   storeVars>>

\* the user enters the number of an album of the page shown
SelChoose ==
    /\ selPc = "prompt"
    /\ "number" \in ValidChoices(sel)
    /\ \E n \in 1..Len(sel.current_page_albums) :
         sel' = [sel EXCEPT !.ret = [values |-> 3,
                                     album_id |-> sel.current_page_albums[n],
                                     catalog_id |-> selector.catalog_id]]
    /\ selPc' = "done"
    /\ call' = NoCall
    /\ UNCHANGED <<authVars, mainVars, syncVars, selector, backend, listed,
                   walk, storeVars>>

NextAlbums ==
    \/ SelectorGetCatalogId \/ SelectorListAlbums
    \/ SelCatalog \/ SelFirstPage \/ SelPrevious \/ SelNext \/ SelChoose

SpecAlbums == InitAlbums /\ [][NextAlbums]_vars

----------------------------------------------------------------------------
(* GoogleDriveFolderSelector.get_folder_path *)

Root == 0               \* the id 'root'
NoParent == -1          \* a folder without a 'parents' entry
Missing == -2           \* an id the Drive has no file for

Folders == 1..MaxFolders

\* The parent each folder names; the folder with id f is named f.
ParentGraphs == [Folders -> Folders \cup {Root, NoParent, Missing}]

\* "My Drive" and "My Drive / name"
MyDrive(names) == [root |-> "mydrive", id |-> Root, names |-> names]

\* "Unknown Path (folder_id)"
UnknownPath(folder_id) == [root |-> "unknown", id |-> folder_id, names |-> <<>>]

InitWalk ==
    /\ now = 0
    /\ client_configured = TRUE
    /\ adobe = AdobeNew
    /\ google = [GoogleNew EXCEPT !.service = TRUE]
    /\ adobeFile = NoFile /\ googleFile = NoPickle
    /\ call = NoCall
    /\ lastRefreshAt = NoTime
    /\ mainPc = "idle" /\ mainSt = MainIdle
    /\ drive_files = <<>> /\ syncPc = "idle" /\ sync = SyncIdle
    /\ selector = SelectorNew /\ backend = NoBackend /\ listed = {}
    /\ selPc = "idle" /\ sel = SelIdle
    /\ \E g \in ParentGraphs, f \in Folders \cup {Root} :
         walk = [WalkIdle EXCEPT !.parents = g, !.folder_id = f,
                                 !.stack = <<f>>, !.pc = "enter"]
    /\ writer = WriterIdle

\* The body of get_folder_path in the newest frame: 'root' returns at once;
\* otherwise the folder is fetched and, if it names a parent other than
\* 'root', get_folder_path is called for the parent.  A failed request, and
\* the RecursionError of a call the stack has no room for, end in the except
\* clause of this frame, which returns the unknown path of its folder_id.
WalkEnter ==
    /\ walk.pc = "enter"
    /\ LET folder_id == walk.stack[Len(walk.stack)]
       IN  IF folder_id = Root
           THEN walk' = [walk EXCEPT !.value = MyDrive(<<>>),
                                     !.pc = "return"]
           ELSE \E ok \in BOOLEAN :
                  /\ folder_id = Missing => ~ok
                  /\ IF ~ok
                     THEN walk' = [walk EXCEPT
                                      !.fetched = Append(@, folder_id),
                                      !.failed = TRUE,
                                      !.value = UnknownPath(folder_id),
                                      !.pc = "return"]
                     ELSE LET parent == walk.parents[folder_id]
                          IN  IF parent \in {NoParent, Root}
                              THEN walk' = [walk EXCEPT
                                             !.fetched = Append(@, folder_id),
                                             !.value = MyDrive(<<folder_id>>),
                                             !.pc = "return"]
                              ELSE IF Len(walk.stack) >= MaxDepth
                              THEN walk' = [walk EXCEPT
                                             !.fetched = Append(@, folder_id),
                                             !.value = UnknownPath(folder_id),
                                             !.pc = "return"]
                              ELSE walk' = [walk EXCEPT
                                             !.fetched = Append(@, folder_id),
                                             !.stack = Append(@, parent)]
    /\ UNCHANGED <<authVars, call, mainVars, syncVars, selector, backend,
                   listed, selPc, sel, storeVars>>

\* The newest frame returns; the frame that called it returns
\* parent_path / folder_name in its turn.
WalkReturn ==
    /\ walk.pc = "return"
    /\ LET n == Len(walk.stack)
       IN  IF n = 1
           THEN walk' = [walk EXCEPT !.stack = <<>>, !.pc = "done"]
           ELSE walk' = [walk EXCEPT
                    !.stack = SubSeq(@, 1, n - 1),
                    !.value = [@ EXCEPT !.names = Append(@, walk.stack[n - 1])]]
    /\ UNCHANGED <<authVars, call, mainVars, syncVars, selector, backend,
                   listed, selPc, sel, storeVars>>

NextWalk == WalkEnter \/ WalkReturn

SpecWalk == InitWalk /\ [][NextWalk]_vars

----------------------------------------------------------------------------
(* Response unwrapping *)

\* A text is the sequence of its characters.
Prefix == <<"w", "h", "i", "l", "e", " ", "(", "1", ")", " ", "{", "}">>

\* str.startswith
StartsWith(text, p) == Len(text) >= Len(p) /\ SubSeq(text, 1, Len(p)) = p

\* The first 12 characters cut off whatever they are.
StripAdobePrefix_Unconditional(raw_response_text) ==
    SubSeq(raw_response_text, 13, Len(raw_response_text))

\* _strip_adobe_prefix: raw_response_text[12:] when the text starts with
\* the prefix
StripAdobePrefix(raw_response_text) ==
    IF StartsWith(raw_response_text, Prefix)
    THEN SubSeq(raw_response_text, 13, Len(raw_response_text))
    ELSE raw_response_text

\* _parse_adobe_response: the text it hands to json.loads
ParseAdobeResponse(response_text) ==
    IF StartsWith(response_text, Prefix)
    THEN SubSeq(response_text, 13, Len(response_text))
    ELSE response_text

\* What response bodies are made of: the prefix, the prefix short of its
\* last character, an empty JSON object, a letter, a blank.
Pieces == {Prefix, SubSeq(Prefix, 1, 11), <<"{", "}">>, <<"w">>, <<" ">>}

RECURSIVE Join(_)
Join(ps) == IF ps = <<>> THEN <<>> ELSE Head(ps) \o Join(Tail(ps))

\* The response bodies: up to MaxPieces pieces in a row.
ResponseBodies ==
    { Join(ps) : ps \in UNION { [1..n -> Pieces] : n \in 0..MaxPieces } }

InitUnwrap ==
    /\ now = 0
    /\ client_configured = TRUE
    /\ adobe = AdobeNew
    /\ google = GoogleNew
    /\ adobeFile = NoFile /\ googleFile = NoPickle
    /\ \E b \in ResponseBodies :
         call = [NoCall EXCEPT !.op = "response", !.orig = b, !.out = b]
    /\ lastRefreshAt = NoTime
    /\ mainPc = "idle" /\ mainSt = MainIdle
    /\ drive_files = <<>> /\ syncPc = "idle" /\ sync = SyncIdle
    /\ MenusIdle

\* The text held is unwrapped by either of the two functions.
Unwrap(op) ==
    /\ \E text \in {StripAdobePrefix(call.out), ParseAdobeResponse(call.out)} :
         call' = [call EXCEPT !.op = op, !.arg = call.out, !.out = text]
    /\ UNCHANGED <<authVars, mainVars, menuVars, storeVars, syncVars>>

\* The body of a response is unwrapped.
UnwrapOnce == call.op = "response" /\ Unwrap("unwrap")

\* A body unwrapped once is unwrapped a second time.
UnwrapAgain == call.op = "unwrap" /\ Unwrap("unwrap again")

NextUnwrap == UnwrapOnce \/ UnwrapAgain

SpecUnwrap == InitUnwrap /\ [][NextUnwrap]_vars

----------------------------------------------------------------------------
(* Claims *)

\* C1: whenever AdobeLightroomAuth.authenticate() returns True, the session
\* it holds is not about to expire: now < expires_at - 5 minutes.
C1_AcquiredSessionNotExpiring ==
    (call.op = "adobe.authenticate" /\ call.ret = "True")
        => (adobe.token_expires # NoTime /\ now < adobe.token_expires - SKEW)

\* C2: the Adobe session never hands out its access token in request headers
\* when the token is past its expiry, unless a refresh was attempted first.
C2_NoExpiredTokenExposed ==
    (/\ call.op \in {"adobe.get_headers", "adobe.request"}
     /\ call.token # None /\ call.expired)
        => call.refreshedFirst

\* C3: for both providers, when the stored session is invalid and a refresh
\* token is stored, authenticate() makes exactly one refresh attempt; if it
\* succeeds the session is returned without the interactive flow, and if it
\* fails the interactive flow is run.
C3_RefreshExactlyOnce ==
    (call.op \in {"adobe.authenticate", "google.authenticate"} /\ call.stale)
        => /\ call.refreshes = 1
           /\ call.refreshed => (call.ret = "True" /\ call.interactive = 0)
           /\ ~call.refreshed => call.interactive = 1

\* C4: for both providers, whenever authenticate() returns True the token
\* file holds a record whose access and refresh tokens equal those of the
\* in-memory session.
C4_PersistedBeforeReturn ==
    /\ (call.op = "adobe.authenticate" /\ call.ret = "True")
          => /\ adobeFile.exists /\ ~adobeFile.corrupt
             /\ adobeFile.access_token = adobe.access_token
             /\ adobeFile.refresh_token = adobe.refresh_token
    /\ (call.op = "google.authenticate" /\ call.ret = "True")
          => /\ googleFile.exists /\ ~googleFile.corrupt
             /\ googleFile.credentials.token = google.credentials.token
             /\ googleFile.credentials.refresh_token
                  = google.credentials.refresh_token

\* The requests of main that list folders, albums or files, and the
\* downloads and uploads of the pipeline.
TransferActivity ==
    \/ mainSt.requests \cap {"folder_list", "album_list", "file_list"} # {}
    \/ sync.downloads # <<>>
    \/ sync.item.requests # <<>>

\* C5: in the main flow no listing, download or upload happens unless both
\* authenticate() calls returned True, and when Google authentication fails
\* Adobe authentication is never attempted and the run ends.
C5_NothingWithoutBothSessions ==
    /\ TransferActivity
          => (mainSt.google_ok = "True" /\ mainSt.adobe_ok = "True")
    /\ mainSt.google_ok \in {"False", "Raised"}
          => (~mainSt.adobe_tried /\ mainPc = "done")

\* A run that authenticated with both services and uploaded an item.
C5_Witness ==
    /\ mainPc = "done"
    /\ mainSt.google_ok = "True" /\ mainSt.adobe_ok = "True"
    /\ "folder_list" \in mainSt.requests /\ "album_list" \in mainSt.requests
    /\ sync.downloads # <<>> /\ sync.item.result = "True"

\* C6: the pipeline returns a result holding exactly one outcome per input
\* entry, in input order.
C6_OneOutcomePerEntry ==
    syncPc = "done"
        => /\ sync.ret # "None"
           /\ Len(sync.ret) = Len(drive_files)
           /\ \A n \in 1..Len(drive_files) :
                 sync.ret[n].name = drive_files[n].name

\* The names of the entries that have an id, in listing order.
RECURSIVE NamesWithId(_)
NamesWithId(files) ==
    IF files = <<>> THEN <<>>
    ELSE IF Head(files).id = NoId THEN NamesWithId(Tail(files))
    ELSE <<Head(files).name>> \o NamesWithId(Tail(files))

\* C7: whatever fails, the pipeline runs to its end and by then every
\* entry that has an id has had its download attempted, in order.
C7_FailuresNeverAbort ==
    <>(syncPc = "done" /\ sync.downloads = NamesWithId(drive_files))

\* A finished run of at least two batches in which no entry succeeded and
\* more than one batch of entries was downloaded.
C7_Witness ==
    /\ syncPc = "done" /\ ~sync.anyOk
    /\ Len(sync.batches) >= 2 /\ Len(sync.downloads) > 5
    /\ sync.item.result = "False"

RECURSIVE Concat(_)
Concat(seqs) == IF seqs = <<>> THEN <<>> ELSE Head(seqs) \o Concat(Tail(seqs))

\* C8: a listing of n entries is split into ceil(n/5) consecutive batches,
\* each of 5 entries except possibly the last, whose concatenation is the
\* listing; every entry is processed exactly once, in order.
C8_Batching ==
    syncPc = "done"
        => LET n == Len(drive_files)
               b == sync.batches
           IN  /\ Len(b) = (n + 4) \div 5
               /\ \A j \in 1..Len(b) :
                     /\ Len(b[j]) \in 1..5
                     /\ j < Len(b) => Len(b[j]) = 5
               /\ Concat(b) = drive_files
               /\ sync.processed = [m \in 1..n |-> drive_files[m].name]

\* A finished run over 12 entries, in batches of 5, 5 and 2.
C8_Witness ==
    /\ syncPc = "done" /\ Len(drive_files) = 12
    /\ Len(sync.batches) = 3
    /\ Len(sync.batches[1]) = 5 /\ Len(sync.batches[2]) = 5
    /\ Len(sync.batches[3]) = 2

\* C9: when the Create request of an item is answered with a non-2xx
\* status, the item fails and no Upload or Associate request follows.
C9_CreateFailureStopsItem ==
    \A r \in 1..Len(sync.item.requests) :
        (/\ sync.item.requests[r].kind = "create"
         /\ sync.item.requests[r].status # NoResponse
         /\ sync.item.requests[r].status \notin 200..299)
            => /\ sync.item.result = "False"
               /\ Len(sync.item.requests) = 1

\* An item whose Create was answered 412.
C9_Witness ==
    /\ Len(sync.item.requests) = 1
    /\ sync.item.requests[1].kind = "create"
    /\ sync.item.requests[1].status = 412
    /\ sync.item.result = "False"

\* C10: when Create and Upload succeeded and Associate is answered with a
\* non-2xx status, the item's result is still success.
C10_AssociateFailureIsSuccess ==
    (/\ Len(sync.item.requests) = 3
     /\ sync.item.requests[3].kind = "associate"
     /\ sync.item.requests[3].status # NoResponse
     /\ sync.item.requests[3].status \notin 200..299)
        => sync.item.result = "True"

\* C11: when the Upload request of an item fails (a status outside 2xx or no
\* answer) after its Create succeeded, the item fails and its requests stay
\* the Create and the Upload: no Associate request follows, and no request
\* of another kind that would delete the created record.
C11_UploadFailureOrphans ==
    \A r \in 1..Len(sync.item.requests) :
        (/\ sync.item.requests[r].kind = "upload"
         /\ sync.item.requests[r].status \notin 200..299)
            => /\ sync.item.result = "False"
               /\ r = 2 /\ Len(sync.item.requests) = 2
               /\ sync.item.requests[1].kind = "create"
               /\ sync.item.requests[1].status \in {200, 201}

\* An item whose Create was answered 201 and whose Upload was answered 500.
C11_Witness ==
    /\ Len(sync.item.requests) = 2
    /\ sync.item.requests[1].status = 201
    /\ sync.item.requests[2].kind = "upload"
    /\ sync.item.requests[2].status = 500
    /\ sync.item.result = "False"

\* C12: an entry without an id is never downloaded and never the item of a
\* Create, Upload or Associate request; the loop is never at one of those
\* steps for it.
C12_NoIdNoNetwork ==
    /\ \A d \in 1..Len(sync.downloads) :
          drive_files[sync.downloads[d]].id # NoId
    /\ sync.item.name # 0 => drive_files[sync.item.name].id # NoId
    /\ syncPc \in {"download", "create", "upload", "associate"}
          => sync.batch[sync.k].id # NoId

\* A finished run that visited an entry without an id and downloaded
\* another entry.
C12_Witness ==
    /\ syncPc = "done"
    /\ \E n \in 1..Len(sync.processed) :
          drive_files[sync.processed[n]].id = NoId
    /\ sync.downloads # <<>>

\* C13: nothing is retried.  No entry is downloaded twice, there is at most
\* one upload attempt per download, an item has at most one request of each
\* kind, every request went out exactly once, and a request that failed is
\* the item's last one and fails the item.
C13_NothingRetried ==
    /\ \A a, b \in 1..Len(sync.downloads) :
          a # b => sync.downloads[a] # sync.downloads[b]
    /\ sync.uuids <= Len(sync.downloads)
    /\ \A a, b \in 1..Len(sync.item.requests) :
          a # b => sync.item.requests[a].kind # sync.item.requests[b].kind
    /\ \A r \in 1..Len(sync.item.requests) :
          /\ sync.item.requests[r].attempts = 1
          /\ (sync.item.requests[r].status = NoResponse
                \/ RaisesForStatus(sync.item.requests[r].status))
                => /\ r = Len(sync.item.requests)
                   /\ sync.item.result = "False"

\* A finished run with two downloads whose last item's Upload got no answer.
C13_Witness ==
    /\ syncPc = "done"
    /\ Len(sync.downloads) >= 2
    /\ Len(sync.item.requests) = 2
    /\ sync.item.requests[2].status = NoResponse
    /\ sync.item.requests[2].attempts = 1

RequestOrder == <<"create", "upload", "associate">>

\* C14: the requests of an item are Create, Upload, Associate in that order,
\* all for the item's asset id, which is the id minted last; no two ids
\* minted in a run are equal.
C14_OneFreshAssetId ==
    /\ Len(sync.item.requests) <= 3
    /\ \A r \in 1..Len(sync.item.requests) :
          /\ sync.item.requests[r].kind = RequestOrder[r]
          /\ sync.item.requests[r].asset_id = sync.item.asset_id
    /\ sync.item.name # 0
          => sync.item.asset_id = sync.asset_ids[Len(sync.asset_ids)]
    /\ \A a, b \in 1..Len(sync.asset_ids) :
          a # b => sync.asset_ids[a] # sync.asset_ids[b]

\* The second item of a run with its three requests sent.
C14_Witness ==
    /\ Len(sync.asset_ids) = 2
    /\ Len(sync.item.requests) = 3
    /\ sync.item.requests[3].asset_id = sync.asset_ids[2]

\* C15: every Create request carries If-None-Match: * in the headers sent.
C15_CreateOnlyIfAbsent ==
    \A r \in 1..Len(sync.item.requests) :
        sync.item.requests[r].kind = "create"
            => /\ "If-None-Match" \in DOMAIN sync.item.requests[r].headers
               /\ sync.item.requests[r].headers["If-None-Match"] = "*"

\* A Create request that was sent and answered 201.
C15_Witness ==
    /\ sync.item.requests # <<>>
    /\ sync.item.requests[1].kind = "create"
    /\ sync.item.requests[1].status = 201
    /\ sync.item.requests[1].headers["If-None-Match"] = "*"

\* The headers sent are those of the session overridden by the caller's.
SentAsMerged(sent, caller, session) ==
    /\ DOMAIN sent = DOMAIN caller \cup DOMAIN session
    /\ \A k \in DOMAIN caller : sent[k] = caller[k]
    /\ \A k \in DOMAIN session \ DOMAIN caller : sent[k] = session[k]

\* The headers the pipeline passes with a request of an item.
CallerHeaders(req, file) ==
    IF req.kind = "create" THEN {CreateHeaders}
    ELSE IF req.kind = "upload"
    THEN {UploadHeaders(MimeOf(file), c.size) : c \in DownloadOutcomes}
    ELSE {AssociateHeaders}

\* C16: every request is sent with each of the caller's headers at the
\* caller's value and each other session header at the session's value; the
\* Upload request has the source MIME type as its Content-Type.
C16_CallerHeadersOverride ==
    \A r \in 1..Len(sync.item.requests) :
        LET req == sync.item.requests[r]
            file == drive_files[sync.item.name]
        IN  /\ \E caller \in CallerHeaders(req, file) :
                  SentAsMerged(req.headers, caller, SessionHeaders(adobe))
            /\ req.kind = "upload"
                  => req.headers["Content-Type"] = MimeOf(file)

\* An Upload request of a video sent as video/mp4 with the session's
\* Authorization header.
C16_Witness ==
    /\ Len(sync.item.requests) >= 2
    /\ sync.item.requests[2].kind = "upload"
    /\ sync.item.requests[2].headers["Content-Type"] = <<"video", "mp4">>
    /\ sync.item.requests[2].headers["Authorization"] = adobe.access_token

\* C17 as stated: for every response body, unwrapping an unwrapped body
\* changes nothing, and a body that does not start with the prefix is
\* returned unchanged.
C17_UnwrapIdempotent ==
    /\ call.op = "unwrap again" => call.out = call.arg
    /\ (call.op \in {"unwrap", "unwrap again"}
          /\ ~StartsWith(call.arg, Prefix)) => call.out = call.arg

\* C17: for every response body that does not start with the prefix twice
\* over, unwrapping the unwrapped body changes nothing; a body that does not
\* start with the prefix is returned unchanged.
C17_UnwrapIdempotentOnSinglePrefix ==
    /\ (call.op = "unwrap again"
          /\ ~StartsWith(call.orig, Prefix \o Prefix)) => call.out = call.arg
    /\ (call.op \in {"unwrap", "unwrap again"}
          /\ ~StartsWith(call.arg, Prefix)) => call.out = call.arg

\* The body 'while (1) {}{}' unwrapped twice: {} both times.
C17_Witness ==
    /\ call.op = "unwrap again"
    /\ call.orig = Prefix \o <<"{", "}">>
    /\ call.arg = <<"{", "}">> /\ call.out = <<"{", "}">>

\* C18: a new instance that loads the token file right after an
\* authenticate() that saved a session holds the access token, the refresh
\* token and the expiry of the session saved, and _load_tokens returns True.
C18_SaveLoadRoundTrip ==
    (call.op = "adobe.load_tokens" /\ call.afterSave)
        => /\ call.ret = "True"
           /\ call.loaded.access_token = adobe.access_token
           /\ call.loaded.refresh_token = adobe.refresh_token
           /\ call.loaded.token_expires = adobe.token_expires

\* A session saved at minute 5 with the default lifetime (expiry 1:05) and
\* without a refresh token, reloaded.
C18_Witness ==
    /\ call.op = "adobe.load_tokens" /\ call.afterSave
    /\ call.loaded.access_token = "a2"
    /\ call.loaded.refresh_token = None
    /\ call.loaded.token_expires = SKEW + DefaultExpiresIn

\* C19: with a token file of unparseable content, authenticate() of either
\* service raises nothing and attempts no refresh, and
\* is_authenticated reports False for that service.
C19_CorruptTreatedAsAbsent ==
    /\ (call.op \in {"adobe.authenticate", "google.authenticate"}
          /\ call.corrupt)
          => call.ret # "Raised" /\ call.refreshes = 0
    /\ (call.op = "token_manager.is_authenticated" /\ call.corrupt)
          => call.ret = "False"

\* C20: after an authenticate() whose refresh failed and whose interactive
\* flow failed too (it returned False), the manager holds no access token
\* and get_headers() gives none.
C20_FailedAcquisitionClearsSession ==
    (/\ call.op = "adobe.authenticate" /\ call.ret = "False"
     /\ call.refreshes = 1 /\ call.interactive = 1)
        => adobe.access_token = None /\ GetHeaders(adobe) = None

\* C21: a list_albums call given a next_link sends its request to that link
\* unchanged and without any parameter; limit and offset are parameters only
\* of a request sent without a next_link.
C21_CursorExcludesOffset ==
    (call.op = "selector.list_albums" /\ call.request.sent)
        => IF call.args.next_link # NoLink
           THEN /\ call.request.url = call.args.next_link
                /\ DOMAIN call.request.params = {}
           ELSE /\ call.request.url.href = <<>>
                /\ "limit" \in DOMAIN call.request.params
                      <=> call.args.limit # NoLimit
                /\ "offset" \in DOMAIN call.request.params
                      <=> call.args.offset > 0

\* A call given a next_link together with limit 25 and offset 25.
C21_Witness ==
    /\ call.op = "selector.list_albums" /\ call.request.sent
    /\ call.args.next_link # NoLink
    /\ call.args.limit = display_page_size
    /\ call.args.offset = display_page_size
    /\ call.request.url = call.args.next_link

\* C22: a list_albums call leaves the selector as it was, and any two calls
\* that gave the same limit and offset (and no next_link) and were answered
\* returned the same album ids in the same order, whatever calls came in
\* between.
C22_ListAlbumsReplay ==
    /\ [](\A x, y \in listed :
            (x.limit = y.limit /\ x.offset = y.offset) => x.albums = y.albums)
    /\ [][call'.op = "selector.list_albums" => selector' = selector]_vars

\* The first page of 25 albums listed a second time, the second page having
\* been listed as well.
C22_Witness ==
    /\ call.op = "selector.list_albums" /\ call.status = 200
    /\ call.replay
    /\ call.args = [limit |-> display_page_size, offset |-> 0,
                    next_link |-> NoLink]
    /\ Len(call.result.albums) = display_page_size
    /\ \E x \in listed : x.offset = display_page_size
    /\ selPc = "idle"

\* C23: a list_albums call on a selector without a catalog id sends nothing
\* and returns [], None; an album listing request is only ever sent by a
\* selector that holds a catalog id, and select_album is past its first step
\* only with one.
C23_ScopeBeforeListing ==
    /\ (call.op = "selector.list_albums" /\ selector.catalog_id = None)
          => /\ ~call.request.sent
             /\ call.result = EmptyListing
    /\ (call.op = "selector.list_albums" /\ call.request.sent)
          => /\ selector.catalog_id # None
             /\ call.args.next_link = NoLink
                   => call.request.url.catalog = selector.catalog_id
    /\ selPc \in {"first", "prompt"} => selector.catalog_id # None

\* list_albums called with a next_link on a selector without a catalog id.
C23_Witness ==
    /\ call.op = "selector.list_albums"
    /\ selector.catalog_id = None
    /\ call.args.next_link # NoLink
    /\ ~call.request.sent

\* The class the claim gives a failed answer.
ErrorClass(status) ==
    IF status \in {401, 403} THEN "AuthFailure"
    ELSE IF status = 404 THEN "NotFound"
    ELSE "ProviderError"

\* What the caller can read off the value returned.
ReportedClass(c) ==
    IF c.op = "selector.get_catalog_id" THEN c.ret
    ELSE IF c.result = EmptyListing THEN "Empty"
    ELSE "Albums"

\* C24: get_catalog_id and list_albums report a failed answer by its class
\* (401/403, 404, any other status outside 2xx), and a failed album listing
\* is not returned as the empty listing.
C24_FailuresByClass ==
    (/\ call.op \in {"selector.get_catalog_id", "selector.list_albums"}
     /\ call.status \in {401, 403, 404, 500})
        => /\ ReportedClass(call) = ErrorClass(call.status)
           /\ call.op = "selector.list_albums"
                 => call.result # EmptyListing

\* The folder reached from f by n parent references (Missing if the chain ends
\* before).
RECURSIVE AncestorAt(_, _, _)
AncestorAt(parents, f, n) ==
    IF n = 0 THEN f
    ELSE IF f \notin DOMAIN parents THEN Missing
    ELSE AncestorAt(parents, parents[f], n - 1)

\* The parent chain of f never leaves the folders: f is on a cycle or leads
\* into one.
Cyclic(parents, f) == AncestorAt(parents, f, MaxFolders) \in Folders

\* C25: get_folder_path on a folder whose parent chain is cyclic, with every
\* request answered, returns a path that starts at the unknown-path fallback,
\* and it has walked the cycle at most once: no folder was fetched twice.
C25_CycleYieldsFallback ==
    (walk.pc = "done" /\ Cyclic(walk.parents, walk.folder_id) /\ ~walk.failed)
        => /\ walk.value.root = "unknown"
           /\ \A a, b \in 1..Len(walk.fetched) :
                 a # b => walk.fetched[a] # walk.fetched[b]

\* C26: a reader that runs while another process is inside _save_tokens
\* (_load_tokens of another instance, TokenManager.is_authenticated('adobe'))
\* finds a complete token record in the file, never an empty or partly
\* written one.
C26_SaveAtomicForReaders ==
    (/\ writer.pc = "dump"
     /\ \/ call.op = "adobe.load_tokens"
        \/ call.op = "token_manager.is_authenticated"
           /\ call.service = "adobe")
        => ~call.corrupt
\* The MIME type of the entry the current item was made from.
ItemMime == MimeOf(drive_files[sync.item.name])

\* C27: the subtype sent in an item's Create request is 'video' if the
\* primary segment of the entry's MIME type is video and 'image' otherwise,
\* whether the primary segment is image or anything else.
C27_SubtypeFromMime ==
    \A r \in 1..Len(sync.item.requests) :
        sync.item.requests[r].kind = "create"
            => sync.item.requests[r].subtype =
                   IF ItemMime[1] = "video" THEN "video" ELSE "image"

\* A Create request for an application/pdf entry, sent with subtype image.
C27_Witness ==
    /\ sync.item.requests # <<>>
    /\ sync.item.requests[1].kind = "create"
    /\ ItemMime = <<"application", "pdf">>
    /\ sync.item.requests[1].subtype = "image"
\* C28: a listing of the source folder that failed does not reach
\* sync_folder_to_album as the empty list, which is what a folder without
\* files gives and what is reported as nothing to synchronize.
C28_ListingErrorDistinct ==
    (call.op = "list_drive_files" /\ call.failed)
        => ~(mainPc = "sync" /\ drive_files = <<>>)
\* The token file holds a session that is usable at time t: an access token
\* and an expiry more than the margin ahead.
StoredValid(file, t) ==
    /\ file.exists /\ ~file.corrupt
    /\ file.access_token # None
    /\ IsIso(file.expires_at)
    /\ t < FromIsoFormat(file.expires_at) - SKEW

\* What an authenticate() step does on a valid stored session: True, no
\* refresh request, no interactive flow, the file as it was and the instance
\* holding the tokens of the file.
UsesStoredSession ==
    /\ call'.ret = "True"
    /\ call'.refreshes = 0 /\ call'.interactive = 0
    /\ adobeFile' = adobeFile
    /\ adobe'.access_token = adobeFile.access_token
    /\ adobe'.refresh_token = adobeFile.refresh_token
    /\ adobe'.token_expires = FromIsoFormat(adobeFile.expires_at)

\* What an authenticate() step does without a token file: the interactive
\* flow, and no refresh request.
GoesInteractive == call'.refreshes = 0 /\ call'.interactive = 1

\* C29 as stated: every authenticate() on a valid stored session uses it and
\* changes nothing, and every authenticate() without a token file goes to
\* the interactive flow without a refresh request.
C29_ValidSessionUntouched ==
    [][call'.op = "adobe.authenticate"
         => /\ StoredValid(adobeFile, now) => UsesStoredSession
            /\ ~adobeFile.exists => GoesInteractive]_vars

\* C29, with the client id and secret set: every authenticate() on a valid
\* stored session uses it and changes nothing, and every authenticate()
\* without a token file goes to the interactive flow without a refresh
\* request.
C29_ValidSessionUntouchedIfConfigured ==
    [][(call'.op = "adobe.authenticate" /\ client_configured)
         => /\ StoredValid(adobeFile, now) => UsesStoredSession
            /\ ~adobeFile.exists => GoesInteractive]_vars

\* authenticate() has just returned True on a valid stored session, with the
\* client id and secret set.
C29_Witness ==
    /\ call.op = "adobe.authenticate" /\ client_configured
    /\ call.ret = "True" /\ call.refreshes = 0 /\ call.interactive = 0
    /\ StoredValid(adobeFile, now)
    /\ adobe.access_token = adobeFile.access_token
\* C30: whenever an AdobeLightroomAuth has loaded the token file, it takes
\* the session as valid exactly if TokenManager.is_authenticated('adobe')
\* is true of the same file at the same time.
C30_ValidityChecksAgree ==
    call.op = "adobe.load_tokens"
        => call.valid = IsAuthenticated("adobe", googleFile, adobeFile, now)
\* What a clear_tokens step leaves alone: the token file of the service
\* named other, and with it what is_authenticated says of that service.
KeepsService(other) ==
    /\ other = "google" => googleFile' = googleFile
    /\ other = "adobe" => adobeFile' = adobeFile
    /\ IsAuthenticated(other, googleFile', adobeFile', now')
           = IsAuthenticated(other, googleFile, adobeFile, now)

\* What a clear_tokens step does to the service named s: its token file is
\* gone and is_authenticated(s) is false.
ClearsService(s) ==
    /\ s = "google" => ~googleFile'.exists
    /\ s = "adobe" => ~adobeFile'.exists
    /\ ~IsAuthenticated(s, googleFile', adobeFile', now')

C32_NextThenPreviousRestores ==
    (selPc = "prompt" /\ call.via = "np")
        => /\ Nav(sel) = call.nav
           /\ call.args = [limit |-> display_page_size,
                           offset |-> sel.current_api_offset,
                           next_link |-> NoLink]

\* 'n' from the second page, answered with an error, and then 'p': back on
\* the second page with one checkpoint on the stack.
C32_Witness ==
    /\ selPc = "prompt" /\ call.via = "np" /\ call.failed
    /\ Len(sel.previous_page_states) = 1
    /\ sel.current_api_offset = display_page_size
    /\ sel.next_api_url # NoLink
    /\ Nav(sel) = call.nav

\* C33: at the prompt the offset is the page size times the depth of the
\* stack, hence never negative, and every checkpoint on the stack holds a
\* next URL.
C33_OffsetIsPageTimesDepth ==
    selPc = "prompt"
        => /\ sel.current_api_offset
                 = display_page_size * Len(sel.previous_page_states)
           /\ sel.current_api_offset >= 0
           /\ \A n \in 1..Len(sel.previous_page_states) :
                 sel.previous_page_states[n].next_url # NoLink

\* The third page, reached by 'n' twice: offset 50 over two checkpoints.
C33_Witness ==
    /\ selPc = "prompt"
    /\ Len(sel.previous_page_states) = 2
    /\ sel.current_api_offset = 2 * display_page_size

\* C34: the prompt always has a choice to offer.
C34_PromptOffersChoice ==
    selPc = "prompt" => ValidChoices(sel) # {}

\* After an 'n' whose listing failed: no album and no next URL, 'p' is the
\* one choice.
C34_Witness ==
    /\ selPc = "prompt" /\ call.via = "n" /\ call.status # 200
    /\ sel.current_page_albums = <<>>
    /\ ValidChoices(sel) = {"p"}
\* C35: whenever select_album has returned, it has returned three values
\* (album id, album name, catalog id), the album id being None when no album
\* was selected.
C35_FailureSameShape ==
    selPc = "done" => sel.ret.values = 3
\* C36: whenever GoogleDriveAuth.authenticate() has returned True, the
\* instance holds a Drive service.
C36_TrueMeansServiceBuilt ==
    (call.op = "google.authenticate" /\ call.ret = "True") => google.service
\* C37: a download that returned content without raising, of whatever
\* length, is followed by the Create step for that entry; only a download
\* that raised ends the entry as a failed download.
C37_DownloadedMeansCreate ==
    [][(syncPc = "download" /\ sync'.content.ok) => syncPc' = "create"]_vars
\* C38: in a run of main, which has got past authenticate(), every entry
\* that reaches _upload_file_to_lightroom with content has its Create
\* request sent, whether or not test_connection() succeeded.
C38_CreateWithoutAccountInfo ==
    [][(mainPc = "sync" /\ syncPc = "create")
         => /\ sync'.item.requests # <<>>
            /\ sync'.item.requests[1].kind = "create"]_vars
====
